---- MODULE Spec2Model ----
(***************************************************************************)
(* Multi-agent code review system (niteesh1106/multi-agent-code-sentinel). *)
(*                                                                         *)
(* Five state machines share this module:                                  *)
(*   SpecJobs     - src/api/main.py: the job table review_status, the two  *)
(*                  submission handlers and the background review tasks;   *)
(*   SpecDispatch - src/core/orchestrator.py review_file and               *)
(*                  src/agents/base_agent.py review_code;                  *)
(*   SpecReview   - src/core/orchestrator.py review_pull_request, the loop *)
(*                  over the files of one pull request;                    *)
(*   SpecFilter   - src/agents: _parse_response and the four               *)
(*                  _filter_issues on one engine response;                 *)
(*   SpecResult   - src/core/orchestrator.py ReviewResult.                 *)
(* Each specification leaves the variables it does not use unchanged.      *)
(***************************************************************************)
EXTENDS Integers, Sequences, FiniteSets, Bags, TLC

VARIABLES
    \* ---- src/api/main.py
    review_status,          \* main.py:45   dict review_id -> job record (a dict)
    tasks,                  \* bag of the background tasks added and not finished
    handled,                \* the last request handled: handler, id, the job
                            \* status it found, and the response it sent
    nreq,                   \* number of HTTP requests handled so far
    github_webhook_secret,  \* settings.github_webhook_secret (config.py:19)
    \* ---- src/core/orchestrator.py, one ReviewResult
    file_results,           \* orchestrator.py:27  file -> agent -> issues
    summary,                \* orchestrator.py:28  {} until finalize
    total_issues,           \* orchestrator.py:29
    critical_issues,        \* orchestrator.py:30
    end_time,               \* orchestrator.py:26  None until finalize
    passed,                 \* log of the add_file_result calls made
    last_call,              \* the last method called on the ReviewResult
    returned,               \* what that call returned
    adds_at_finalize,       \* number of add_file_result calls made before
                            \* the last finalize
    \* ---- Orchestrator.review_file and the agents it runs
    agents,                 \* orchestrator.py:178  names of the enabled agents,
                            \* in insertion order
    agent_issues,           \* base_agent.py:78  self.issues of each agent
    at,                     \* where the caller of review_file is
    reviewing,              \* the file_path under review
    idx,                    \* position in `tasks` of the coroutine awaited
    results,                \* orchestrator.py:205  the dict being built
    produced,               \* what each agent's review did for this file
    previous,               \* the mapping returned for the previous file
    nfiles,                 \* number of review_file calls started
    \* ---- one engine response on its way through an agent
    raw,                    \* data.get("issues", []) of the engine's JSON
    parsed,                 \* what _parse_response returned
    filtered,               \* what _filter_issues returned
    filter_agent,           \* the agent whose _filter_issues ran
    stage,                  \* "raw", "parsed" or "filtered"
    response,               \* the engine's raw text given to _parse_response
    \* ---- Orchestrator.review_pull_request, one call
    files_data,             \* the file_path of each entry of files_data
    pos,                    \* index of the entry the loop is at
    step,                   \* where review_pull_request is suspended
    reviewed,               \* the file paths passed to review_file so far
    sleeps,                 \* number of asyncio.sleep(0.5) completed
    finalize_calls,         \* number of result.finalize() calls made
    \* ---- GitHubHandler.post_pr_comment on the thread pool, one PR
    comments,               \* the issue comments of the PR, oldest first
    posts,                  \* the _post_pr_comment_sync calls and where
                            \* each worker thread is
    \* ---- review_file callers running concurrently on the shared agents
    calls                   \* each caller's file, coroutine awaited and
                            \* results dict

jobVars == <<review_status, tasks, handled, nreq, github_webhook_secret>>
resultVars == <<file_results, summary, total_issues, critical_issues,
                end_time, passed, last_call, returned, adds_at_finalize>>

dispatchVars == <<agents, agent_issues, at, reviewing, idx, results,
                  produced, previous, nfiles>>

filterVars == <<raw, parsed, filtered, filter_agent, stage, response>>

prVars == <<files_data, pos, step, reviewed, sleeps, finalize_calls>>

postVars == <<comments, posts>>

callVars == <<calls>>

vars == <<jobVars, resultVars, dispatchVars, filterVars, prVars, postVars,
          callVars>>

(***************************************************************************)
(* Python dicts are functions whose domain is the set of keys present.     *)
(***************************************************************************)
\* dict.update(u): keys of u overwrite, every other key of d is kept
Update(d, u) ==
    [k \in (DOMAIN d) \cup (DOMAIN u) |-> IF k \in DOMAIN u THEN u[k] ELSE d[k]]

\* d[key] = value on a dict d
SetItem(d, key, value) ==
    [k \in (DOMAIN d) \cup {key} |-> IF k = key THEN value ELSE d[k]]

(***************************************************************************)
(* Bounds of the job model.                                                *)
(***************************************************************************)
MaxRequests == 3

Repos == {"o/r"}
PrNumbers == {1}

\* datetime.now(timezone.utc).isoformat(): the clock is read at the grain of
\* request arrivals, so two reads between two arrivals give the same stamp
Now == nreq

\* f"{repo}/pull/{number}"  (main.py:128, main.py:159)
ReviewId(repo, number) == <<repo, "/pull/", number>>
ReviewIds == {ReviewId(r, n) : r \in Repos, n \in PrNumbers}
NoReviewId == <<>>

\* ReviewRequest (models.py:17-22); pr_number has ge=1
ReviewRequests ==
    [repo : Repos, pr_number : PrNumbers,
     post_comment : BOOLEAN, include_details : BOOLEAN]

(***************************************************************************)
(* Webhook deliveries: a raw body, the X-Hub-Signature-256 header (absent  *)
(* = <<>>) and the X-GitHub-Event header.                                  *)
(***************************************************************************)
WebhookActions == {"opened", "synchronize", "reopened", "closed"}
EventTypes == {"pull_request", "push"}
\* the raw body: the serialised action, repository full_name and PR number
Bodies == {<<a, r, n>> : a \in WebhookActions, r \in Repos, n \in PrNumbers}
\* request.json() (main.py:115)
ParseJson(body) ==
    [action |-> body[1],
     repository |-> [full_name |-> body[2]],
     pull_request |-> [number |-> body[3]]]

NoSecret == ""
SecretKeys == {"k1", "k2"}
NoSignature == <<>>
\* hmac.new(key, body, sha256).hexdigest(): a digest fixed by key and message,
\* different for different (key, message) within the bounded domain
HmacSha256Hex(key, body) == <<key, body>>
\* "sha256=" + hexdigest (main.py:104-108)
ExpectedSignature(key, body) == <<"sha256=", HmacSha256Hex(key, body)>>
\* what a sender may put in the header for body b: nothing, the digest of b
\* under either key, or the digest of another body (a replayed signature)
Replayed(b) == <<"closed", b[2], b[3]>>
SignaturesFor(b) ==
    {NoSignature} \cup {ExpectedSignature(k, m) : k \in SecretKeys, m \in {b, Replayed(b)}}
WebhookRequests ==
    UNION {[signature : SignaturesFor(b), body : {b}, event_type : EventTypes] :
           b \in Bodies}

(***************************************************************************)
(* The job table (main.py:45) and its records.                             *)
(***************************************************************************)
HasJob(id) == id \in DOMAIN review_status
StatusOf(table, id) == IF id \in DOMAIN table THEN table[id]["status"] ELSE "absent"
Terminal == {"completed", "failed"}

\* the dict literal of main.py:129-134 and main.py:169-174
NewJobRecord(repo, number, t) ==
    [status |-> "pending", started_at |-> t, pr_number |-> number, repo |-> repo]

\* faulty variant: the new fields are merged into the record already there
CreateJobMerging(table, id, rec) ==
    IF id \in DOMAIN table THEN [table EXCEPT ![id] = Update(@, rec)]
    ELSE SetItem(table, id, rec)

\* review_status[review_id] = {...}: the whole record is replaced
\* (main.py:129, main.py:169)
CreateJob(table, id, rec) == SetItem(table, id, rec)

\* review_status[review_id]["status"] = "in_progress" (main.py:203, main.py:249)
MarkInProgress(table, id) ==
    [table EXCEPT ![id] = SetItem(@, "status", "in_progress")]

\* review_status[review_id].update({...}) (main.py:227, 239, 274, 287)
UpdateJob(table, id, fields) == [table EXCEPT ![id] = Update(@, fields)]

(***************************************************************************)
(* What orchestrator.review_pull_request hands back to a background task:  *)
(* the finalized ReviewResult, seen here through the fields the task reads *)
(* (summary, total_issues, critical_issues, to_dict()).                    *)
(***************************************************************************)
NoResult == [total_issues |-> -1, critical_issues |-> -1]
ReviewOutcomes ==
    {[total_issues |-> 0, critical_issues |-> 0],
     [total_issues |-> 2, critical_issues |-> 1]}
SummaryOf(result) ==
    [total_issues |-> result.total_issues,
     critical_issues |-> result.critical_issues]
NoneValue == [none |-> TRUE]
\* result.to_dict() (orchestrator.py:68-83), as far as the job record shows it
ToDictOf(task) ==
    [pr_number |-> task.pr_number, repo_name |-> task.repo,
     summary |-> SummaryOf(task.result)]

\* str(e) of the exception a collaborator raised
ErrorOf(pc) == IF pc = "get_pr_files" THEN "get_pr_files failed"
               ELSE "post_pr_comment failed"

NewTask(kind, repo, number, post, details) ==
    [kind |-> kind, review_id |-> ReviewId(repo, number), repo |-> repo,
     pr_number |-> number, post_comment |-> post, include_details |-> details,
     pc |-> "scheduled", result |-> NoResult]

(***************************************************************************)
(* Python dicts whose iteration order matters are sequences of             *)
(* <<key, value>> pairs in insertion order.                                *)
(***************************************************************************)
Keys(d) == {d[i][1] : i \in DOMAIN d}
Get(d, k) == d[CHOOSE i \in DOMAIN d : d[i][1] = k][2]
GetOr(d, k, default) == IF k \in Keys(d) THEN Get(d, k) ELSE default
\* d[k] = v: an existing key keeps its place, a new key goes last
Put(d, k, v) ==
    IF k \in Keys(d)
    THEN [i \in DOMAIN d |-> IF d[i][1] = k THEN <<k, v>> ELSE d[i]]
    ELSE Append(d, <<k, v>>)

RECURSIVE Flatten(_)
\* the concatenation of a sequence of sequences
Flatten(ss) == IF ss = <<>> THEN <<>> ELSE Head(ss) \o Flatten(Tail(ss))

RECURSIVE SumOf(_)
SumOf(ns) == IF ns = <<>> THEN 0 ELSE Head(ns) + SumOf(Tail(ns))

(***************************************************************************)
(* CodeReviewIssue (base_agent.py:36-54).  The constructor stores the      *)
(* severity it is given, whatever it is.                                   *)
(***************************************************************************)
NoSuggestion == ""
CodeReviewIssue(line, severity, category, message, suggestion, file) ==
    [line_number |-> line, severity |-> severity, category |-> category,
     message |-> message, suggestion |-> suggestion, file_path |-> file]

\* the severities of the enum, in the order finalize lists them
Severities == <<"CRITICAL", "HIGH", "MEDIUM", "LOW", "INFO">>

\* the finding lists an analyzer hands over for a file: none, a CRITICAL and
\* a HIGH finding, or one finding whose severity is outside the enum
IssueLists(file) ==
    { <<>>,
      << CodeReviewIssue(3, "CRITICAL", "sql_injection", "m1", "s1", file),
         CodeReviewIssue(7, "HIGH", "xss", "m2", NoSuggestion, file) >>,
      << CodeReviewIssue(5, "BLOCKER", "naming", "m3", NoSuggestion, file) >> }

Files == {"a.py", "b.py"}
Agents == <<"Security", "Performance", "Style", "Documentation">>

(***************************************************************************)
(* BaseAgent._parse_response (base_agent.py:206-245) and the four          *)
(* _filter_issues.  An entry of the engine's "issues" list is a function   *)
(* from the keys it has; a line_number is the sequence of the numbers its  *)
(* text holds (<<>> when it holds none, <<10, 12>> for "10-12"); a message *)
(* is a sequence of characters.                                            *)
(***************************************************************************)
\* d.get(k, default) on a JSON object
DictGet(d, k, default) == IF k \in DOMAIN d THEN d[k] ELSE default

\* re.search(r'(\d+)', str(...)): the first number, 0 when there is none
\* (base_agent.py:220-225)
FirstNumber(numbers) == IF numbers = <<>> THEN 0 ELSE numbers[1]

\* base_agent.py:218-236, for valid JSON
ParseResponse(issues_data, file_path) ==
    [i \in DOMAIN issues_data |->
        CodeReviewIssue(FirstNumber(DictGet(issues_data[i], "line_number", <<0>>)),
                        DictGet(issues_data[i], "severity", "MEDIUM"),
                        DictGet(issues_data[i], "category", "general"),
                        DictGet(issues_data[i], "message", <<>>),
                        DictGet(issues_data[i], "suggestion", NoSuggestion),
                        file_path)]

\* s[:n]
Take(s, n) == SubSeq(s, 1, IF Len(s) < n THEN Len(s) ELSE n)

\* tuple comparison of two-part sort keys
KeyLess(a, b) == a[1] < b[1] \/ (a[1] = b[1] /\ a[2] < b[2])

RECURSIVE InsertKeyed(_, _)
\* p goes after every pair whose key is not greater
InsertKeyed(p, sorted) ==
    IF sorted = <<>> THEN <<p>>
    ELSE IF KeyLess(p[1], Head(sorted)[1]) THEN <<p>> \o sorted
    ELSE <<Head(sorted)>> \o InsertKeyed(p, Tail(sorted))

RECURSIVE SortKeyed(_)
SortKeyed(ps) ==
    IF ps = <<>> THEN <<>>
    ELSE InsertKeyed(ps[Len(ps)], SortKeyed(SubSeq(ps, 1, Len(ps) - 1)))

\* list.sort(key=...), stable: `keys` holds the key of each issue
SortedBy(issues, keys) ==
    LET ps == SortKeyed([i \in DOMAIN issues |-> <<keys[i], issues[i]>>])
    IN  [i \in DOMAIN ps |-> ps[i][2]]

\* the severity ranks of the issues under a dict and the default of .get
Ranks(issues, priority, default) ==
    [i \in DOMAIN issues |-> DictGet(priority, issues[i].severity, default)]

RECURSIVE UniqueKeyed(_, _, _)
\* for issue in issues: if key not in seen: seen.add(key); append
UniqueKeyed(ps, seen, unique_issues) ==
    IF ps = <<>> THEN unique_issues
    ELSE IF Head(ps)[1] \in seen
         THEN UniqueKeyed(Tail(ps), seen, unique_issues)
         ELSE UniqueKeyed(Tail(ps), seen \cup {Head(ps)[1]},
                          Append(unique_issues, Head(ps)[2]))

\* `keys` holds the key of each issue
Unique(issues, keys) ==
    UniqueKeyed([i \in DOMAIN issues |-> <<keys[i], issues[i]>>], {}, <<>>)

\* the dicts the filters rank severities with, and the default of .get
severity_priority ==
    [CRITICAL |-> 0, HIGH |-> 1, MEDIUM |-> 2, LOW |-> 3, INFO |-> 4]
style_priority == [HIGH |-> 0, MEDIUM |-> 1, LOW |-> 2, INFO |-> 3]

\* the categories of SECURITY_PATTERNS (security_agent.py:15-59) that match
\* a line of the diff of the file: a.py adds
\*     query = f"SELECT * FROM users WHERE id = {user_id}"
\*     password = "admin123"
DiffMatches(file_path) ==
    IF file_path = "a.py" THEN {"sql_injection", "secrets"} ELSE {}

\* SecurityAgent._detect_pattern_issues (security_agent.py:92-98): it is
\* given the path alone and returns the empty list it starts with
DetectPatternIssues(file_path) == <<>>

\* faulty variant: the cap is applied before the sort
SecurityFilterCapFirst(issues) ==
    LET unique_issues ==
            Take(Unique(issues, [i \in DOMAIN issues |->
                            <<issues[i].line_number, issues[i].message>>]), 20)
    IN SortedBy(unique_issues,
                [i \in DOMAIN unique_issues |->
                    <<Ranks(unique_issues, severity_priority, 5)[i], 0>>])

\* SecurityAgent._filter_issues (security_agent.py:71-90)
SecurityFilter(issues) ==
    LET unique_issues ==
            Unique(issues, [i \in DOMAIN issues |->
                      <<issues[i].line_number, issues[i].message>>])
        sorted == SortedBy(unique_issues,
                    [i \in DOMAIN unique_issues |->
                        <<Ranks(unique_issues, severity_priority, 5)[i], 0>>])
        pattern_issues ==
            DetectPatternIssues(IF issues # <<>> THEN issues[1].file_path ELSE "")
    IN Take(sorted \o pattern_issues, 20)

\* PerformanceAgent._filter_issues (performance_agent.py:50-66)
PerformanceFilter(issues) ==
    LET unique_issues ==
            Unique(issues, [i \in DOMAIN issues |->
                      <<issues[i].line_number, issues[i].category,
                        Take(issues[i].message, 30)>>])
    IN Take(SortedBy(unique_issues,
                [i \in DOMAIN unique_issues |->
                    <<Ranks(unique_issues, severity_priority, 5)[i], 0>>]), 15)

\* faulty variant: LOW findings are never dropped for being minor
StyleUniqueKeepingLow(issues, seen, unique_issues) ==
    Unique(issues, [i \in DOMAIN issues |->
                      <<issues[i].line_number, issues[i].category>>])

RECURSIVE StyleUnique(_, _, _)
\* the loop of StyleAgent._filter_issues (style_agent.py:54-62)
StyleUnique(issues, seen, unique_issues) ==
    IF issues = <<>> THEN unique_issues
    ELSE LET issue == Head(issues)
             key == <<issue.line_number, issue.category>>
         IN IF Len(unique_issues) > 10 /\ issue.severity = "LOW"
            THEN StyleUnique(Tail(issues), seen, unique_issues)
            ELSE IF key \in seen
            THEN StyleUnique(Tail(issues), seen, unique_issues)
            ELSE StyleUnique(Tail(issues), seen \cup {key},
                             Append(unique_issues, issue))

\* StyleAgent._filter_issues (style_agent.py:48-70)
StyleFilter(issues) ==
    LET unique_issues == StyleUnique(issues, {}, <<>>)
    IN Take(SortedBy(unique_issues,
                [i \in DOMAIN unique_issues |->
                    <<Ranks(unique_issues, style_priority, 4)[i],
                      unique_issues[i].line_number>>]), 20)

\* faulty variant: every finding is accepted, whatever its category
DocUniqueAcceptingAll(issues, seen_types, unique_issues) == issues

RECURSIVE DocUnique(_, _, _)
\* the loop of DocumentationAgent._filter_issues (documentation_agent.py:48-58)
DocUnique(issues, seen_types, unique_issues) ==
    IF issues = <<>> THEN unique_issues
    ELSE LET issue == Head(issues)
             issue_type == issue.category
         IN IF issue_type \in DOMAIN seen_types /\ seen_types[issue_type] >= 3
            THEN DocUnique(Tail(issues), seen_types, unique_issues)
            ELSE DocUnique(Tail(issues),
                           SetItem(seen_types, issue_type,
                                   DictGet(seen_types, issue_type, 0) + 1),
                           Append(unique_issues, issue))

\* DocumentationAgent._filter_issues (documentation_agent.py:42-66)
DocumentationFilter(issues) ==
    LET unique_issues == DocUnique(issues, <<>>, <<>>)
    IN Take(SortedBy(unique_issues,
                [i \in DOMAIN unique_issues |->
                    <<Ranks(unique_issues, severity_priority, 5)[i],
                      unique_issues[i].line_number>>]), 15)

\* self._filter_issues of the agent named
FilterIssues(agent, issues) ==
    CASE agent = "Security" -> SecurityFilter(issues)
      [] agent = "Performance" -> PerformanceFilter(issues)
      [] agent = "Style" -> StyleFilter(issues)
      [] agent = "Documentation" -> DocumentationFilter(issues)

\* a message is a sequence of characters; these two differ only after the
\* thirtieth
Pad30 == [i \in 1..30 |-> "x"]
MsgA == Pad30 \o <<"a">>
MsgB == Pad30 \o <<"b">>
MsgS == <<"s">>

MaxRawLen == 2

\* entries an engine may put in "issues": some lack keys, one has a severity
\* outside the enum and a range as line_number
RawIssues ==
    { [line_number |-> <<3>>, severity |-> "CRITICAL", category |-> "c1",
       message |-> MsgA],
      [line_number |-> <<3>>, severity |-> "LOW", category |-> "c1",
       message |-> MsgB],
      [line_number |-> <<10, 12>>, severity |-> "BLOCKER", category |-> "c2",
       message |-> MsgS, suggestion |-> "s"],
      [message |-> MsgS],
      [line_number |-> <<>>, severity |-> "INFO", category |-> "c2"],
      [line_number |-> <<7>>, severity |-> "HIGH", category |-> "c2",
       message |-> MsgA] }

\* long responses: n entries whose severities and categories cycle and
\* whose line numbers repeat after `period` entries
LongLens == {12, 16, 21, 30}
SeverityCycles ==
    { <<"LOW", "CRITICAL", "INFO", "HIGH", "BLOCKER", "MEDIUM">>,
      <<"LOW", "LOW", "LOW", "HIGH">>,
      <<"INFO", "CRITICAL">> }
CategoryCycles == { <<"c1", "c2">>, <<"c1", "c2", "c3", "c4", "c5", "c6", "c7">> }
Periods == {7, 21, 24, 30}
Cycle(c, i) == c[((i - 1) % Len(c)) + 1]
LongRaw(n, sevs, cats, period) ==
    [i \in 1..n |->
        [line_number |-> <<((i - 1) % period) + 1>>,
         severity |-> Cycle(sevs, i),
         category |-> Cycle(cats, i),
         message |-> IF i % 2 = 0 THEN MsgA ELSE MsgB]]

RawInputs ==
    UNION {[1..n -> RawIssues] : n \in 0..MaxRawLen}
    \cup {LongRaw(n, sevs, cats, period) :
            n \in LongLens, sevs \in SeverityCycles,
            cats \in CategoryCycles, period \in Periods}

(***************************************************************************)
(* The engine's raw text, as _parse_response and _parse_text_response see  *)
(* it (base_agent.py:206-268): where the first "{" and the last "}" are,   *)
(* what json.loads makes of the text between them, and for each line of    *)
(* the text the words and the number the line heuristic looks for.         *)
(***************************************************************************)
\* no engine text is being parsed
NoResponse == [kind |-> "none"]

\* a line of text: whether its lower case holds "line", "issue", "problem",
\* the numbers matched by line\s*(\d+), and the line stripped
TextLine(has_line, has_issue, has_problem, numbers, text) ==
    [has_line |-> has_line, has_issue |-> has_issue,
     has_problem |-> has_problem, numbers |-> numbers, text |-> text]

\* prose the engine writes around or instead of the JSON
Proses ==
    { <<>>,
      <<TextLine(FALSE, FALSE, FALSE, <<>>, <<"looks", "fine">>)>>,
      <<TextLine(TRUE, TRUE, FALSE, <<12>>, <<"Issue", "on", "line", "12">>)>>,
      <<TextLine(TRUE, FALSE, TRUE, <<>>, <<"problem", "in", "this", "line">>),
        TextLine(TRUE, FALSE, FALSE, <<7>>, <<"see", "line", "7">>)>> }

\* an element of the "issues" value: a JSON object, or anything else
Item(is_dict, value) == [is_dict |-> is_dict, value |-> value]

\* the value of "issues": a list (or a string, iterated by character) gives
\* its elements, a number or null cannot be iterated
IssuesValue(iterable, items) == [iterable |-> iterable, items |-> items]

\* the value of an element that is no JSON object
NotAnObject == [not_an_object |-> TRUE]

\* json.loads raised JSONDecodeError, or returned the object `data`, seen
\* through its "issues" entry
LoadsFails ==
    [error |-> TRUE, has_issues |-> FALSE, issues |-> IssuesValue(TRUE, <<>>)]
Loads(has_issues, issues) ==
    [error |-> FALSE, has_issues |-> has_issues, issues |-> issues]

WellFormedItem ==
    Item(TRUE, [line_number |-> <<3>>, severity |-> "HIGH", category |-> "c1",
                message |-> <<"m">>])

\* the part of the text from the first brace on.  `open` and `close` say
\* where the first "{" and the last "}" are in it (0: none); `loads` is
\* what json.loads does with the text between them
JsonParts ==
    { \* no brace at all
      [open |-> 0, close |-> 0, loads |-> LoadsFails, lines |-> <<>>],
      \* "} {": the last closing brace is before the first opening one
      [open |-> 3, close |-> 1, loads |-> LoadsFails,
       lines |-> <<TextLine(FALSE, FALSE, FALSE, <<>>, <<"}", "{">>)>>],
      \* "{issue at line 3}": not JSON
      [open |-> 1, close |-> 17, loads |-> LoadsFails,
       lines |-> <<TextLine(TRUE, TRUE, FALSE, <<3>>,
                            <<"{issue", "at", "line", "3}">>)>>],
      \* "{oops}": not JSON
      [open |-> 1, close |-> 6, loads |-> LoadsFails,
       lines |-> <<TextLine(FALSE, FALSE, FALSE, <<>>, <<"{oops}">>)>>],
      \* {"issues": [{...}, "line 4 problem"]}: an element is not an object
      [open |-> 1, close |-> 40,
       loads |-> Loads(TRUE, IssuesValue(TRUE,
                            <<WellFormedItem, Item(FALSE, NotAnObject)>>)),
       lines |-> <<TextLine(TRUE, TRUE, TRUE, <<4>>, <<"{issues...}">>)>>],
      \* {"issues": "line 4 has a problem"}: a string, iterated by character
      [open |-> 1, close |-> 30,
       loads |-> Loads(TRUE, IssuesValue(TRUE,
                            <<Item(FALSE, NotAnObject),
                              Item(FALSE, NotAnObject)>>)),
       lines |-> <<TextLine(TRUE, TRUE, TRUE, <<4>>, <<"{issues: str}">>)>>],
      \* {"issues": 5}: not iterable
      [open |-> 1, close |-> 13,
       loads |-> Loads(TRUE, IssuesValue(FALSE, <<>>)),
       lines |-> <<TextLine(FALSE, TRUE, FALSE, <<>>, <<"{issues: 5}">>)>>],
      \* {"result": "ok"}: an object without "issues"
      [open |-> 1, close |-> 16,
       loads |-> Loads(FALSE, IssuesValue(TRUE, <<>>)),
       lines |-> <<TextLine(FALSE, FALSE, FALSE, <<>>, <<"{result}">>)>>],
      \* {"issues": [{...}]}: the expected shape
      [open |-> 1, close |-> 60,
       loads |-> Loads(TRUE, IssuesValue(TRUE, <<WellFormedItem>>)),
       lines |-> <<TextLine(TRUE, TRUE, FALSE, <<>>, <<"{issues: [1]}">>)>>] }

\* the text: prose, then the part with the braces.  json_start is
\* response.find("{") and json_end is response.rfind("}") + 1
\* (base_agent.py:212-213), counted in characters with one prose line
\* taken as 20 characters
Responses ==
    { [kind |-> "text",
       json_start |-> IF j.open = 0 THEN -1 ELSE 20 * Len(pr) + j.open - 1,
       json_end |-> IF j.close = 0 THEN 0 ELSE 20 * Len(pr) + j.close,
       loads |-> j.loads,
       lines |-> pr \o j.lines] : pr \in Proses, j \in JsonParts }

\* _parse_text_response (base_agent.py:247-268)
ParseTextResponse(lines, file_path) ==
    LET hits == SelectSeq(lines, LAMBDA l :
                    l.has_line /\ (l.has_issue \/ l.has_problem))
    IN [i \in DOMAIN hits |->
          CodeReviewIssue(FirstNumber(hits[i].numbers), "MEDIUM", "general",
                          hits[i].text, NoSuggestion, file_path)]

RECURSIVE DictPrefix(_)
\* the elements before the first one that is not an object: the loop of
\* base_agent.py:218 appends an issue for each and stops at the
\* AttributeError of issue_data.get
DictPrefix(items) ==
    IF items = <<>> \/ ~Head(items).is_dict THEN <<>>
    ELSE <<Head(items).value>> \o DictPrefix(Tail(items))

\* _parse_response (base_agent.py:206-245) on any text
ParseAnyResponse(resp, file_path) ==
    IF ~(resp.json_start >= 0 /\ resp.json_end > resp.json_start)
    THEN \* base_agent.py:214: the if is skipped, `issues` is still []
         <<>>
    ELSE IF resp.loads.error
    THEN \* base_agent.py:237-240: json.JSONDecodeError
         ParseTextResponse(resp.lines, file_path)
    ELSE LET \* data.get("issues", [])
             issues_data == IF resp.loads.has_issues THEN resp.loads.issues
                            ELSE IssuesValue(TRUE, <<>>)
         IN IF ~issues_data.iterable
            THEN \* TypeError at the for statement, caught at :242
                 <<>>
            ELSE \* an element that is no object raises AttributeError,
                 \* caught at :242: the issues appended so far are returned
                 ParseResponse(DictPrefix(issues_data.items), file_path)

FilterIdle ==
    /\ raw = <<>>
    /\ parsed = <<>>
    /\ filtered = <<>>
    /\ filter_agent = ""
    /\ stage = "idle"
    /\ response = NoResponse

FilterInit ==
    /\ raw \in RawInputs
    /\ parsed = <<>>
    /\ filtered = <<>>
    /\ filter_agent = ""
    /\ stage = "raw"
    /\ response = NoResponse

\* self.issues = self._parse_response(response, file_path) (base_agent.py:111)
parse_response ==
    /\ stage = "raw"
    /\ parsed' = ParseResponse(raw, "a.py")
    /\ stage' = "parsed"
    /\ UNCHANGED <<raw, filtered, filter_agent, response>>

ParseInit ==
    /\ raw = <<>>
    /\ parsed = <<>>
    /\ filtered = <<>>
    /\ filter_agent = ""
    /\ stage = "raw"
    /\ response \in Responses

\* self.issues = self._parse_response(response, file_path), for any text
\* the engine returned (base_agent.py:111)
parse_any_response ==
    /\ stage = "raw"
    /\ response # NoResponse
    /\ parsed' = ParseAnyResponse(response, "a.py")
    /\ stage' = "parsed"
    /\ UNCHANGED <<raw, filtered, filter_agent, response>>

\* self.issues = self._filter_issues(self.issues) (base_agent.py:114)
filter_issues(agent) ==
    /\ stage = "parsed"
    /\ filtered' = FilterIssues(agent, parsed)
    /\ filter_agent' = agent
    /\ stage' = "filtered"
    /\ UNCHANGED <<raw, parsed, response>>

(***************************************************************************)
(* ReviewResult (orchestrator.py:19-171).                                  *)
(***************************************************************************)
MaxAdds == 3
\* the analyzers whose results reach this ReviewResult
ResultAgents == {"Security", "Style"}

NoTime == "None"
EmptyDict == <<>>

\* all recorded findings, in the iteration order of finalize's three loops
RecordedIssues(fr) ==
    Flatten([i \in DOMAIN fr |->
               Flatten([j \in DOMAIN fr[i][2] |-> fr[i][2][j][2]])])

RECURSIVE TallyKnownOnly(_, _, _)
\* faulty variant: a key the dict does not hold yet is skipped
TallyKnownOnly(counts, issues, field) ==
    IF issues = <<>> THEN counts
    ELSE LET key == Head(issues)[field] IN
         TallyKnownOnly(IF key \in Keys(counts)
                        THEN Put(counts, key, Get(counts, key) + 1)
                        ELSE counts,
                        Tail(issues), field)

RECURSIVE Tally(_, _, _)
\* counts[issue.<field>] = counts.get(issue.<field>, 0) + 1, issue by issue
\* (orchestrator.py:53-54)
Tally(counts, issues, field) ==
    IF issues = <<>> THEN counts
    ELSE LET key == Head(issues)[field] IN
         Tally(Put(counts, key, GetOr(counts, key, 0) + 1), Tail(issues), field)

\* sum(1 for issue in issues if issue.severity == "CRITICAL")
CountCritical(issues) ==
    Cardinality({i \in DOMAIN issues : issues[i].severity = "CRITICAL"})

\* the counters after add_file_result (orchestrator.py:38-39)
AddedTotal(total, issues) == total + Len(issues)
\* faulty variant: the counter is overwritten instead of incremented
AddedCriticalOverwritten(critical, issues) == CountCritical(issues)
AddedCritical(critical, issues) == critical + CountCritical(issues)

\* self.file_results[file_path][agent_name] = issues (orchestrator.py:34-37)
Recorded(fr, file, agent, issues) ==
    Put(fr, file, Put(GetOr(fr, file, <<>>), agent, issues))

\* the summary finalize builds (orchestrator.py:47-66); agents_used is
\* list(set(...)), a set of names; duration_seconds is not modelled
Summarize(fr, total, critical) ==
    [total_files |-> Len(fr),
     total_issues |-> total,
     critical_issues |-> critical,
     severity_breakdown |->
        Tally([i \in DOMAIN Severities |-> <<Severities[i], 0>>],
              RecordedIssues(fr), "severity"),
     category_breakdown |-> Tally(<<>>, RecordedIssues(fr), "category"),
     agents_used |-> UNION {Keys(fr[i][2]) : i \in DOMAIN fr}]

\* faulty variant: a severity outside the enum is written as MEDIUM
IssueToDictCoercing(issue) ==
    [line_number |-> issue.line_number,
     severity |-> IF issue.severity \in {Severities[i] : i \in DOMAIN Severities}
                  THEN issue.severity ELSE "MEDIUM",
     category |-> issue.category,
     message |-> issue.message,
     suggestion |-> issue.suggestion,
     file_path |-> issue.file_path]

\* CodeReviewIssue.to_dict (base_agent.py:56-66); the timestamp is not
\* modelled
IssueToDict(issue) ==
    [line_number |-> issue.line_number,
     severity |-> issue.severity,
     category |-> issue.category,
     message |-> issue.message,
     suggestion |-> issue.suggestion,
     file_path |-> issue.file_path]

\* the dict to_dict returns (orchestrator.py:70-83); pr_number, repo_name
\* and start_time are not modelled
ToDict(fr, s, end) ==
    [end_time |-> end,
     summary |-> s,
     file_results |->
        [i \in DOMAIN fr |->
            <<fr[i][1],
              [j \in DOMAIN fr[i][2] |->
                  <<fr[i][2][j][1],
                    [k \in DOMAIN fr[i][2][j][2] |->
                        IssueToDict(fr[i][2][j][2][k])]>>]>>]]

ResultInit ==
    /\ file_results = <<>>
    /\ summary = EmptyDict
    /\ total_issues = 0
    /\ critical_issues = 0
    /\ end_time = NoTime
    /\ passed = <<>>
    /\ last_call = "__init__"
    /\ returned = NoneValue
    /\ adds_at_finalize = 0

add_file_result(file_path, agent_name, issues) ==
    /\ Len(passed) < MaxAdds
    /\ file_results' = Recorded(file_results, file_path, agent_name, issues)
    /\ total_issues' = AddedTotal(total_issues, issues)
    /\ critical_issues' = AddedCritical(critical_issues, issues)
    /\ passed' = Append(passed, <<file_path, agent_name, issues>>)
    /\ last_call' = "add_file_result"
    /\ returned' = NoneValue
    /\ UNCHANGED <<summary, end_time, adds_at_finalize>>

\* faulty variant: the summary is never computed
finalize_not_run == UNCHANGED resultVars

\* finalize (orchestrator.py:40-66)
finalize ==
    /\ end_time' = "set"
    /\ summary' = Summarize(file_results, total_issues, critical_issues)
    /\ last_call' = "finalize"
    /\ returned' = NoneValue
    /\ adds_at_finalize' = Len(passed)
    /\ UNCHANGED <<file_results, total_issues, critical_issues, passed>>

\* to_dict reads the object and returns a snapshot (orchestrator.py:68-83)
to_dict ==
    /\ last_call' = "to_dict"
    /\ returned' = ToDict(file_results, summary, end_time)
    /\ UNCHANGED <<file_results, summary, total_issues, critical_issues,
                   end_time, passed, adds_at_finalize>>

(***************************************************************************)
(* ReviewResult.to_markdown (orchestrator.py:85-171).  The report is the   *)
(* sequence of its lines; a line is a record of what the f-string puts in  *)
(* it.  The duration and the percentages are left out.                     *)
(***************************************************************************)
\* a line: its kind, the number in it (a line number or a count), and the
\* severity, analyzer names and text it shows
Line(kind, n, severity, names, text) ==
    [kind |-> kind, n |-> n, severity |-> severity, names |-> names,
     text |-> text]

Blank == Line("blank", 0, "", {}, "")

\* the paths of the model in the order of Python's string comparison (by
\* code point: upper case before lower case)
PathsInOrder == <<"README.md", "a.py", "b.PY", "b.py">>
PathRank(file_path) ==
    CHOOSE i \in DOMAIN PathsInOrder : PathsInOrder[i] = file_path

\* faulty variant: the files are rendered in insertion order
UnsortedItems(fr) == fr

\* sorted(self.file_results.items()) (orchestrator.py:120)
SortedItems(fr) ==
    SortedBy(fr, [i \in DOMAIN fr |-> <<PathRank(fr[i][1]), 0>>])

\* all_issues: the (agent_name, issue) pairs of a file, agent by agent
\* (orchestrator.py:121-123)
AllIssues(agents_results) ==
    Flatten([k \in DOMAIN agents_results |->
                [j \in DOMAIN agents_results[k][2] |->
                    <<agents_results[k][1], agents_results[k][2][j]>>]])

\* one finding's line (orchestrator.py:136, 142, 157)
FindingLine(pair) ==
    Line("finding", pair[2].line_number, pair[2].severity, {pair[1]},
         pair[2].message)

\* the lines of the CRITICAL and of the HIGH findings: each is followed by
\* its suggestion when it has one (orchestrator.py:135-144)
WithSuggestions(pairs) ==
    Flatten([k \in DOMAIN pairs |->
                <<FindingLine(pairs[k])>> \o
                IF pairs[k][2].suggestion # NoSuggestion
                THEN <<Line("suggestion", 0, "", {}, pairs[k][2].suggestion)>>
                ELSE <<>>])

\* the lines of the other findings (orchestrator.py:155-157)
WithoutSuggestions(pairs) == [k \in DOMAIN pairs |-> FindingLine(pairs[k])]

\* the section of one file (orchestrator.py:125-162): nothing for a file
\* with no finding
FileSection(file_path, agents_results) ==
    LET all_issues == AllIssues(agents_results)
        critical == SelectSeq(all_issues, LAMBDA p : p[2].severity = "CRITICAL")
        high == SelectSeq(all_issues, LAMBDA p : p[2].severity = "HIGH")
        other_issues ==
            SelectSeq(all_issues,
                      LAMBDA p : p[2].severity \notin {"CRITICAL", "HIGH"})
    IN IF all_issues = <<>> THEN <<>>
       ELSE <<Line("file", 0, "", {}, file_path), Blank>>
            \o WithSuggestions(critical)
            \o WithSuggestions(high)
            \o (IF Len(other_issues) > 3
                THEN <<Blank, Line("details", 0, "", {}, ""),
                       Line("summary", Len(other_issues), "", {}, ""), Blank>>
                ELSE <<>>)
            \o WithoutSuggestions(Take(other_issues, 10))
            \o (IF Len(other_issues) > 3
                THEN <<Blank, Line("end details", 0, "", {}, "")>>
                ELSE <<>>)
            \o <<Blank>>

\* the rows of the severity table: the severities counted more than 0
\* (orchestrator.py:108-112)
SeverityRows(breakdown) ==
    LET counted == SelectSeq(breakdown, LAMBDA kv : kv[2] > 0)
    IN [k \in DOMAIN counted |->
          Line("severity row", counted[k][2], counted[k][1], {}, "")]

\* the report (orchestrator.py:87-171)
ToMarkdown(fr, s, total, critical) ==
    LET items == SortedItems(fr) IN
    <<Line("title", 0, "", {}, "Code Review Report"), Blank,
      Line("total issues", total, "", {}, ""),
      Line("critical issues", critical, "", {}, ""),
      Line("files reviewed", Len(fr), "", {}, ""), Blank>>
    \o (IF total > 0
        THEN <<Line("severity table", 0, "", {}, "")>>
             \o SeverityRows(s.severity_breakdown) \o <<Blank>>
        ELSE <<>>)
    \o <<Line("detailed results", 0, "", {}, ""), Blank>>
    \o Flatten([i \in DOMAIN items |-> FileSection(items[i][1], items[i][2])])
    \* ', '.join(self.summary['agents_used']): the names, in the order the
    \* list made from a set happens to have
    \o <<Line("footer", 0, "", {}, ""),
         Line("agents used", 0, "", s.agents_used, "")>>

\* to_markdown reads self.duration, an attribute only finalize sets
\* (orchestrator.py:44, 92): before finalize it raises AttributeError
to_markdown ==
    /\ last_call' = IF end_time = NoTime THEN "to_markdown: AttributeError"
                    ELSE "to_markdown"
    /\ returned' = IF end_time = NoTime THEN NoneValue
                   ELSE [markdown |-> ToMarkdown(file_results, summary,
                                                 total_issues, critical_issues)]
    /\ UNCHANGED <<file_results, summary, total_issues, critical_issues,
                   end_time, passed, adds_at_finalize>>

(***************************************************************************)
(* Orchestrator.review_file (orchestrator.py:197-223) running               *)
(* BaseAgent.review_code (base_agent.py:82-124) of every enabled agent.     *)
(*                                                                         *)
(* review_file builds one coroutine per agent and awaits them one after    *)
(* the other.  An awaited review_code runs up to the await of acompletion; *)
(* the code from the engine's answer to the next await (parse, filter,     *)
(* return, results[agent_name] = ..., start of the next coroutine) has no  *)
(* await in it and is one step.                                            *)
(***************************************************************************)
MaxFiles == 2

\* Orchestrator._initialize_agents (orchestrator.py:181-193): the enabled
\* agents, in the order of the four `if settings.enable_*` statements
EnabledAgents(flags) == SelectSeq(Agents, LAMBDA a : a \in flags)

\* what _filter_issues(_parse_response(response)) yields for an engine
\* response on `file_path`: nothing, or a finding of this agent on this file
FoundBy(agent, file_path) ==
    {<<>>, <<CodeReviewIssue(1, "HIGH", agent, "m", NoSuggestion, file_path)>>}

\* how one agent's review of the file goes:
\*   response     - the engine answered (acompletion, or the synchronous
\*                  completion of base_agent.py:151 after acompletion raised)
\*   engine_error - acompletion raised and the fallback raised too
\*                  (base_agent.py:160-162)
\*   crash        - the agent's review raises outside the try of
\*                  BaseAgent.review_code (base_agent.py:101, 121-122, or a
\*                  subclass's own review_code)
Outcomes(agent, file_path) ==
    {[kind |-> "response", found |-> f] : f \in FoundBy(agent, file_path)}
    \cup {[kind |-> "engine_error", found |-> <<>>],
          [kind |-> "crash", found |-> <<>>]}

\* faulty variant: the except branch of review_code does not reset self.issues
ReviewCodeKeepingIssues(self_issues, outcome) ==
    CASE outcome.kind = "response" ->
            [raised |-> FALSE, issues |-> outcome.found, value |-> outcome.found]
      [] outcome.kind = "engine_error" ->
            [raised |-> FALSE, issues |-> self_issues, value |-> self_issues]
      [] OTHER ->
            [raised |-> TRUE, issues |-> self_issues, value |-> <<>>]

\* faulty variant: the value returned is what self.issues held when the
\* engine call returned, not the list just parsed
ReviewCodeReturningStale(self_issues, outcome) ==
    CASE outcome.kind = "response" ->
            [raised |-> FALSE, issues |-> outcome.found, value |-> self_issues]
      [] outcome.kind = "engine_error" ->
            [raised |-> FALSE, issues |-> <<>>, value |-> <<>>]
      [] OTHER ->
            [raised |-> TRUE, issues |-> self_issues, value |-> <<>>]

\* BaseAgent.review_code (base_agent.py:101-124) from the engine's answer on:
\* whether it raises, self.issues afterwards, and the value returned
\* (`return self.issues`)
ReviewCode(self_issues, outcome) ==
    CASE outcome.kind = "response" ->
            \* base_agent.py:111-114
            [raised |-> FALSE, issues |-> outcome.found, value |-> outcome.found]
      [] outcome.kind = "engine_error" ->
            \* base_agent.py:116-118
            [raised |-> FALSE, issues |-> <<>>, value |-> <<>>]
      [] OTHER ->
            [raised |-> TRUE, issues |-> self_issues, value |-> <<>>]

\* faulty variant: the except branch of review_file records nothing
GatheredDroppingFailures(res, agent_name, r) ==
    IF r.raised THEN res ELSE Put(res, agent_name, r.value)

\* orchestrator.py:215-221: results[agent_name] = issues, or [] on exception
Gathered(res, agent_name, r) ==
    Put(res, agent_name, IF r.raised THEN <<>> ELSE r.value)

DispatchIdle ==
    /\ agents = <<>>
    /\ agent_issues = <<>>
    /\ at = "idle"
    /\ reviewing = ""
    /\ idx = 0
    /\ results = <<>>
    /\ produced = <<>>
    /\ previous = <<>>
    /\ nfiles = 0

DispatchInit ==
    /\ \E flags \in SUBSET {Agents[i] : i \in DOMAIN Agents} :
          /\ agents = EnabledAgents(flags)
          /\ agent_issues = [a \in flags |-> <<>>]
    /\ at = "idle"
    /\ reviewing = ""
    /\ idx = 0
    /\ results = <<>>
    /\ produced = <<>>
    /\ previous = <<>>
    /\ nfiles = 0

\* review_file is called for file_path (orchestrator.py:205-216): with no
\* agent enabled it returns {} at once, else it runs the first coroutine up
\* to its engine call
review_file(file_path) ==
    /\ at \in {"idle", "returned"}
    /\ nfiles < MaxFiles
    /\ nfiles' = nfiles + 1
    /\ reviewing' = file_path
    /\ previous' = results
    /\ results' = <<>>
    /\ produced' = <<>>
    /\ IF agents = <<>>
       THEN at' = "returned" /\ idx' = 0
       ELSE at' = "acompletion" /\ idx' = 1
    /\ UNCHANGED <<agents, agent_issues>>

\* the awaited agent's review ends with `outcome`; review_file stores its
\* slot and awaits the next coroutine, or returns after the last
AgentDone(outcome) ==
    LET agent_name == agents[idx]
        r == ReviewCode(agent_issues[agent_name], outcome)
    IN
    /\ at = "acompletion"
    /\ agent_issues' = [agent_issues EXCEPT ![agent_name] = r.issues]
    /\ results' = Gathered(results, agent_name, r)
    /\ produced' = Append(produced, [agent |-> agent_name, outcome |-> outcome,
                                     propagated |-> r.raised])
    /\ IF idx = Len(agents)
       THEN at' = "returned" /\ idx' = 0
       ELSE at' = "acompletion" /\ idx' = idx + 1
    /\ UNCHANGED <<agents, reviewing, previous, nfiles>>

EngineReturns(found) == AgentDone([kind |-> "response", found |-> found])
EngineFails == AgentDone([kind |-> "engine_error", found |-> <<>>])
ReviewCodeCrashes == AgentDone([kind |-> "crash", found |-> <<>>])

(***************************************************************************)
(* Several review_file calls in flight at once.  The Orchestrator is made  *)
(* once at import (main.py:41) and every background task calls it, so the  *)
(* agent instances and their self.issues are shared by all the reviews     *)
(* running on the event loop.  A call is suspended only in its engine      *)
(* call; the other calls run meanwhile.                                    *)
(***************************************************************************)
MaxCallers == 2
Callers == 1..MaxCallers

\* the settings.enable_* configurations the concurrent reviews run under
SharedFlags ==
    {{}, {"Security"}, {"Style"}, {"Security", "Performance"},
     {"Performance", "Documentation"}, {"Style", "Documentation"}}

\* the files caller c may be given: the first caller reviews a.py, the
\* others the same path (in another change-set) or another path
CallerFiles(c) == IF c = 1 THEN {"a.py"} ELSE Files

\* what the engine's answer to caller c's prompt parses and filters to:
\* nothing, or a finding on c's file in c's change-set
FoundIn(agent, c, file_path) ==
    {<<>>, <<CodeReviewIssue(1, "HIGH", agent, <<"change-set", c>>,
                             NoSuggestion, file_path)>>}

NotCalled ==
    [file_path |-> "", at |-> "idle", idx |-> 0, results |-> <<>>,
     produced |-> <<>>]

CallsIdle == calls = <<>>

CallsInit ==
    /\ \E flags \in SharedFlags :
          /\ agents = EnabledAgents(flags)
          /\ agent_issues = [a \in flags |-> <<>>]
    /\ at = "idle"
    /\ reviewing = ""
    /\ idx = 0
    /\ results = <<>>
    /\ produced = <<>>
    /\ previous = <<>>
    /\ nfiles = 0
    /\ calls = [c \in Callers |-> NotCalled]

\* caller c calls review_file for file_path (orchestrator.py:205-216)
ConcurrentReviewFile(c, file_path) ==
    /\ calls[c].at = "idle"
    /\ calls' = [calls EXCEPT ![c] =
                    [file_path |-> file_path,
                     at |-> IF agents = <<>> THEN "returned" ELSE "acompletion",
                     idx |-> IF agents = <<>> THEN 0 ELSE 1,
                     results |-> <<>>,
                     produced |-> <<>>]]
    /\ UNCHANGED dispatchVars

\* the agent awaited by caller c ends its review with `outcome`: it assigns
\* the shared self.issues and returns it with no await in between
\* (base_agent.py:108-124), and review_file stores the returned list
\* (orchestrator.py:216-221)
ConcurrentAgentDone(c, outcome) ==
    LET call == calls[c]
        agent_name == agents[call.idx]
        r == ReviewCode(agent_issues[agent_name], outcome)
    IN
    /\ call.at = "acompletion"
    /\ agent_issues' = [agent_issues EXCEPT ![agent_name] = r.issues]
    /\ calls' = [calls EXCEPT ![c] =
          [call EXCEPT
             !.results = Gathered(call.results, agent_name, r),
             !.produced = Append(call.produced,
                                 [agent |-> agent_name, outcome |-> outcome,
                                  propagated |-> r.raised]),
             !.at = IF call.idx = Len(agents) THEN "returned"
                    ELSE "acompletion",
             !.idx = IF call.idx = Len(agents) THEN 0 ELSE call.idx + 1]]
    /\ UNCHANGED <<agents, at, reviewing, idx, results, produced, previous,
                   nfiles>>

(***************************************************************************)
(* Orchestrator.review_pull_request (orchestrator.py:225-276).  It is      *)
(* suspended in review_file (in an agent's engine call) and in             *)
(* asyncio.sleep(0.5); the code between two suspensions is one step.       *)
(***************************************************************************)
MaxPrFiles == 3

\* the file paths of a pull request
PrPaths == {"a.py", "b.PY", "README.md"}

\* Path(file_path).suffix.lower() (orchestrator.py:285-286)
Suffix(file_path) ==
    CASE file_path = "a.py" -> ".py"
      [] file_path = "b.PY" -> ".PY"
      [] file_path = "README.md" -> ".md"
      [] OTHER -> ""
Lower(suffix) == IF suffix = ".PY" THEN ".py" ELSE suffix

supported_extensions ==
    {".py", ".js", ".jsx", ".ts", ".tsx", ".java", ".cpp", ".c",
     ".cs", ".go", ".rb", ".php", ".swift", ".kt", ".rs", ".scala"}

\* faulty variant: every file is reviewed
ShouldReviewAnyFile(file_path) == TRUE

\* Orchestrator._should_review_file (orchestrator.py:278-286)
ShouldReviewFile(file_path) == Lower(Suffix(file_path)) \in supported_extensions

\* the lists get_pr_files may hand over: paths without repetition, with no
\* more reviewable files than review_file calls are modelled
PrFileLists ==
    {l \in UNION {[1..n -> PrPaths] : n \in 0..MaxPrFiles} :
        /\ \A i, j \in DOMAIN l : l[i] = l[j] => i = j
        /\ Cardinality({i \in DOMAIN l : ShouldReviewFile(l[i])}) <= MaxFiles}

\* faulty variant: the last reviewable entry is taken first
LastToReview(files, from) ==
    LET rest == {i \in from..Len(files) : ShouldReviewFile(files[i])}
    IN IF rest = {} THEN 0 ELSE CHOOSE i \in rest : \A j \in rest : j <= i

\* the for loop from entry `from` on: the index of the next entry that is
\* not skipped by `continue`, 0 when the loop ends
NextToReview(files, from) ==
    LET rest == {i \in from..Len(files) : ShouldReviewFile(files[i])}
    IN IF rest = {} THEN 0 ELSE CHOOSE i \in rest : \A j \in rest : i <= j

RECURSIVE AddNonEmpty(_, _, _)
\* for agent_name, issues in file_results.items(): if issues:
\*     result.add_file_result(file_path, agent_name, issues)
\* (orchestrator.py:266-268), on the fields add_file_result writes
AddNonEmpty(rr, file_path, res) ==
    IF res = <<>> THEN rr
    ELSE LET agent_name == Head(res)[1]
             issues == Head(res)[2]
         IN AddNonEmpty(
              IF issues = <<>> THEN rr
              ELSE [file_results |-> Recorded(rr.file_results, file_path,
                                              agent_name, issues),
                    total_issues |-> AddedTotal(rr.total_issues, issues),
                    critical_issues |-> AddedCritical(rr.critical_issues, issues),
                    passed |-> Append(rr.passed, <<file_path, agent_name, issues>>)],
              file_path, Tail(res))

PrIdle ==
    /\ files_data = <<>>
    /\ pos = 0
    /\ step = "idle"
    /\ reviewed = <<>>
    /\ sleeps = 0
    /\ finalize_calls = 0

PrInit ==
    /\ files_data \in PrFileLists
    /\ pos = 0
    /\ step = "called"
    /\ reviewed = <<>>
    /\ sleeps = 0
    /\ finalize_calls = 0

\* the loop from entry `from` up to the next suspension: skipped entries
\* are passed over; the next reviewable file goes to review_file, which
\* suspends in the first agent's engine call or, with no agent enabled,
\* returns {} so that the loop suspends in the sleep; after the last entry
\* finalize runs and the ReviewResult is returned
RunLoop(from) ==
    LET n == NextToReview(files_data, from) IN
    IF n = 0
    THEN /\ finalize
         /\ pos' = Len(files_data) + 1
         /\ step' = "returned"
         /\ finalize_calls' = finalize_calls + 1
         /\ UNCHANGED <<reviewed, dispatchVars>>
    ELSE /\ review_file(files_data[n])
         /\ pos' = n
         /\ reviewed' = Append(reviewed, files_data[n])
         /\ step' = IF agents = <<>> THEN "sleep" ELSE "review_file"
         /\ UNCHANGED <<resultVars, finalize_calls>>

\* faulty variant: the results gathered so far are added at once
GatheredSomething(where) == TRUE

\* `file_results = await self.review_file(...)` has returned
ReviewFileReturned(where) == where = "returned"

\* review_pull_request is called (orchestrator.py:242-263)
review_pull_request ==
    /\ step = "called"
    /\ RunLoop(1)
    /\ UNCHANGED <<files_data, sleeps>>

\* an agent's review ends inside review_file; when it was the last,
\* review_file returns, the non-empty lists are added and
\* review_pull_request suspends in the sleep (orchestrator.py:216-271)
AgentDoneInPr(outcome) ==
    /\ step = "review_file"
    /\ AgentDone(outcome)
    /\ IF ReviewFileReturned(at')
       THEN LET rr == AddNonEmpty([file_results |-> file_results,
                                   total_issues |-> total_issues,
                                   critical_issues |-> critical_issues,
                                   passed |-> passed],
                                  reviewing, results')
            IN /\ file_results' = rr.file_results
               /\ total_issues' = rr.total_issues
               /\ critical_issues' = rr.critical_issues
               /\ passed' = rr.passed
               /\ last_call' = IF rr.passed = passed THEN last_call
                               ELSE "add_file_result"
               /\ returned' = NoneValue
               /\ UNCHANGED <<summary, end_time, adds_at_finalize>>
               /\ step' = "sleep"
       ELSE UNCHANGED <<resultVars, step>>
    /\ UNCHANGED <<files_data, pos, reviewed, sleeps, finalize_calls>>

\* asyncio.sleep(0.5) returns and the loop goes on (orchestrator.py:271-276)
SleepReturns ==
    /\ step = "sleep"
    /\ sleeps' = sleeps + 1
    /\ RunLoop(pos + 1)
    /\ UNCHANGED files_data

(***************************************************************************)
(* The background task once `result = await                                *)
(* orchestrator.review_pull_request(...)` has returned (main.py:212-233,    *)
(* main.py:257-281).  The ReviewResult is created inside                    *)
(* review_pull_request (orchestrator.py:244) and reaches the task only as  *)
(* the return value.                                                       *)
(***************************************************************************)
\* comment_body = result.to_markdown(), then the await of post_pr_comment
\* (main.py:219-224, main.py:265-271)
TaskRendersComment ==
    /\ step = "returned"
    /\ to_markdown
    /\ step' = "post_pr_comment"
    /\ UNCHANGED <<files_data, pos, reviewed, sleeps, finalize_calls>>

\* the update on success: it reads result.summary and the counters and, for
\* include_details, calls result.to_dict() (main.py:227-233, 274-281);
\* process_manual_review reaches it without posting when post_comment is
\* false
TaskUpdatesStatus(include_details) ==
    /\ step \in {"returned", "post_pr_comment"}
    /\ IF include_details THEN to_dict ELSE UNCHANGED resultVars
    /\ step' = "completed"
    /\ UNCHANGED <<files_data, pos, reviewed, sleeps, finalize_calls>>

\* post_pr_comment raised: the except branch reads nothing of the result
\* (main.py:235-243, main.py:283-291)
TaskPostRaises ==
    /\ step = "post_pr_comment"
    /\ step' = "failed"
    /\ UNCHANGED <<resultVars, files_data, pos, reviewed, sleeps,
                   finalize_calls>>

(***************************************************************************)
(* GitHubHandler.post_pr_comment (github_handler.py:77-112).  Each call    *)
(* runs _post_pr_comment_sync on a thread of the handler's pool; every     *)
(* GitHub API call is a request of its own, and the threads of the pool    *)
(* run in any interleaving between two requests.                           *)
(***************************************************************************)
MaxPosts == 3
\* github_handler.py:17
max_workers == 5

Bot == "bot"

\* an issue comment; `marked` says the body holds "🤖 Code Review Report"
Comment(user, marked, body) == [user |-> user, marked |-> marked, body |-> body]

\* the report of post p: to_markdown starts every report with the marker
\* (orchestrator.py:88)
ReportBody(p) == <<"report", p>>

\* the comments on the pull request before the first post
InitialComments ==
    {<<>>,
     <<Comment("alice", FALSE, <<"lgtm">>)>>,
     <<Comment("alice", TRUE, <<"quote">>), Comment(Bot, FALSE, <<"hello">>)>>,
     <<Comment("alice", FALSE, <<"lgtm">>), Comment(Bot, TRUE, <<"report", 0>>)>>}

PostIdle ==
    /\ comments = <<>>
    /\ posts = <<>>

PostInit ==
    /\ comments \in InitialComments
    /\ posts = [p \in 1..MaxPosts |-> [pc |-> "idle", target |-> 0]]

\* the threads of the pool that are running a call
Running == {p \in DOMAIN posts : posts[p].pc \in {"edit", "create"}}

\* the comments the loop of github_handler.py:96-97 stops at
ReportComments(cs) ==
    {k \in DOMAIN cs : cs[k].user = Bot /\ cs[k].marked}

\* a task awaits post_pr_comment: the call is queued on the executor
\* (github_handler.py:79-86)
post_pr_comment(p) ==
    /\ posts[p].pc = "idle"
    /\ posts' = [posts EXCEPT ![p].pc = "queued"]
    /\ UNCHANGED comments

\* a free worker takes the call and fetches the comments
\* (github_handler.py:91-97): it goes on to edit the first report comment
\* of the bot, or to create one when the list has none
WorkerListsComments(p) ==
    /\ posts[p].pc = "queued"
    /\ Cardinality(Running) < max_workers
    /\ posts' = [posts EXCEPT ![p] =
          IF ReportComments(comments) = {}
          THEN [pc |-> "create", target |-> 0]
          ELSE [pc |-> "edit",
                target |-> CHOOSE k \in ReportComments(comments) :
                              \A j \in ReportComments(comments) : k <= j]]
    /\ UNCHANGED comments

\* comment.edit(comment_body) (github_handler.py:99-101)
WorkerEdits(p) ==
    /\ posts[p].pc = "edit"
    /\ comments' = [comments EXCEPT ![posts[p].target] =
                       Comment(Bot, TRUE, ReportBody(p))]
    /\ posts' = [posts EXCEPT ![p].pc = "done"]

\* pr.create_issue_comment(comment_body) (github_handler.py:104-105)
WorkerCreates(p) ==
    /\ posts[p].pc = "create"
    /\ comments' = Append(comments, Comment(Bot, TRUE, ReportBody(p)))
    /\ posts' = [posts EXCEPT ![p].pc = "done"]

\* what a handler leaves in `handled`
Handled(op, id, found, code, status) ==
    [op |-> op, review_id |-> id, found |-> found, status_code |-> code,
     status |-> status]

JobsInit ==
    /\ review_status = <<>>
    /\ tasks = EmptyBag
    /\ handled = Handled("none", NoReviewId, "n/a", 0, "none")
    /\ nreq = 0
    /\ github_webhook_secret \in {NoSecret, "k1"}

(***************************************************************************)
(* POST /api/review (main.py:152-188).  The handler has no await between   *)
(* the check and the write: one atomic step.                               *)
(***************************************************************************)
\* main.py:162: the submission is refused while the id is in_progress
ManualConflict(table, id) ==
    id \in DOMAIN table /\ table[id]["status"] = "in_progress"

manual_review_unchecked(req) ==
    LET review_id == ReviewId(req.repo, req.pr_number) IN
    /\ nreq < MaxRequests
    /\ nreq' = nreq + 1
    /\ UNCHANGED github_webhook_secret
    /\ review_status' =
          SetItem(review_status, review_id,
                  NewJobRecord(req.repo, req.pr_number, Now'))
    /\ tasks' = tasks (+) SetToBag({
          NewTask("process_manual_review", req.repo, req.pr_number,
                  req.post_comment, req.include_details)})
    /\ handled' = Handled("manual_review", review_id,
                          StatusOf(review_status, review_id), 200, "pending")

manual_review(req) ==
    LET review_id == ReviewId(req.repo, req.pr_number) IN
    /\ nreq < MaxRequests
    /\ nreq' = nreq + 1
    /\ UNCHANGED github_webhook_secret
    /\ IF ManualConflict(review_status, review_id)
       THEN \* raise HTTPException(status_code=409, ...)
            /\ handled' = Handled("manual_review", review_id,
                                  StatusOf(review_status, review_id),
                                  409, "conflict")
            /\ UNCHANGED <<review_status, tasks>>
       ELSE /\ review_status' =
                  CreateJob(review_status, review_id,
                            NewJobRecord(req.repo, req.pr_number, Now'))
            /\ tasks' = tasks (+) SetToBag({
                  NewTask("process_manual_review", req.repo, req.pr_number,
                          req.post_comment, req.include_details)})
            /\ handled' = Handled("manual_review", review_id,
                                  StatusOf(review_status, review_id),
                                  200, "pending")

(***************************************************************************)
(* POST /api/webhook (main.py:90-149).  review_status is written once, with *)
(* no read before it, so the awaits of request.body() and request.json()   *)
(* do not split the step.                                                  *)
(***************************************************************************)
\* main.py:102-112: the signature is compared only when a secret is
\* configured AND the header is present
SignatureRejected(req) ==
    /\ github_webhook_secret # NoSecret
    /\ req.signature # NoSignature
    /\ req.signature # ExpectedSignature(github_webhook_secret, req.body)

\* main.py:121-123
TriggersReview(req) ==
    /\ req.event_type = "pull_request"
    /\ ParseJson(req.body).action \in {"opened", "synchronize", "reopened"}

github_webhook(req) ==
    LET payload == ParseJson(req.body)
        repo == payload.repository.full_name
        number == payload.pull_request.number
        review_id == ReviewId(repo, number)
    IN
    /\ nreq < MaxRequests
    /\ nreq' = nreq + 1
    /\ UNCHANGED github_webhook_secret
    /\ IF SignatureRejected(req)
       THEN \* raise HTTPException(status_code=401, detail="Invalid signature")
            /\ handled' = Handled("github_webhook", NoReviewId, "n/a",
                                  401, "Invalid signature")
            /\ UNCHANGED <<review_status, tasks>>
       ELSE IF TriggersReview(req)
       THEN /\ review_status' =
                  CreateJob(review_status, review_id,
                            NewJobRecord(repo, number, Now'))
            /\ tasks' = tasks (+) SetToBag({
                  NewTask("process_pull_request", repo, number, TRUE, FALSE)})
            /\ handled' = Handled("github_webhook", review_id,
                                  StatusOf(review_status, review_id),
                                  200, "accepted")
       ELSE /\ handled' = Handled("github_webhook", NoReviewId, "n/a",
                                  200, "ignored")
            /\ UNCHANGED <<review_status, tasks>>

(***************************************************************************)
(* Background tasks process_pull_request (main.py:200-243) and             *)
(* process_manual_review (main.py:246-291).  A task runs on the event      *)
(* loop; other handlers and tasks run only while it is suspended in an     *)
(* await, so each action below is the code between two awaits.             *)
(***************************************************************************)
\* the in-flight tasks form a bag: a finished task leaves it
Replace(task, next) == (tasks (-) SetToBag({task})) (+) SetToBag({next})
Finish(task) == tasks (-) SetToBag({task})
Unfinished == BagToSet(tasks)

\* the dict passed to update() on success (main.py:227-233, main.py:274-281)
CompletedFields(task, t) ==
    LET common == [status |-> "completed", completed_at |-> t,
                   summary |-> SummaryOf(task.result),
                   total_issues |-> task.result.total_issues,
                   critical_issues |-> task.result.critical_issues]
    IN IF task.kind = "process_manual_review"
       THEN SetItem(common, "report",
                    IF task.include_details THEN ToDictOf(task) ELSE NoneValue)
       ELSE common

\* the dict passed to update() in the except branch (main.py:239-243, 287-291)
FailedFields(msg, t) == [status |-> "failed", error |-> msg, completed_at |-> t]

\* main.py:203 / main.py:249, up to the await of get_pr_files
TaskStart(task) ==
    /\ task.pc = "scheduled"
    /\ review_status' = MarkInProgress(review_status, task.review_id)
    /\ tasks' = Replace(task, [task EXCEPT !.pc = "get_pr_files"])
    /\ UNCHANGED <<handled, nreq, github_webhook_secret>>

\* get_pr_files returned; the task is then suspended in review_pull_request
GetPrFilesReturns(task) ==
    /\ task.pc = "get_pr_files"
    /\ tasks' = Replace(task, [task EXCEPT !.pc = "review_pull_request"])
    /\ UNCHANGED <<review_status, handled, nreq, github_webhook_secret>>

\* faulty variant: the exception leaves the task without touching the record
TaskDies(task) ==
    /\ tasks' = Finish(task)
    /\ UNCHANGED <<review_status, handled, nreq, github_webhook_secret>>

\* the except branch, entered with no await from the collaborator that raised
TaskFails(task) ==
    /\ review_status' = UpdateJob(review_status, task.review_id,
                                  FailedFields(ErrorOf(task.pc), Now))
    /\ tasks' = Finish(task)
    /\ UNCHANGED <<handled, nreq, github_webhook_secret>>

\* get_pr_files raised (github_handler.py:70-75 re-raise)
GetPrFilesRaises(task) ==
    /\ task.pc = "get_pr_files"
    /\ TaskFails(task)

\* the update on success, reached with no await after the last collaborator
TaskCompletes(task, result) ==
    /\ review_status' = UpdateJob(review_status, task.review_id,
                            CompletedFields([task EXCEPT !.result = result], Now))
    /\ tasks' = Finish(task)
    /\ UNCHANGED <<handled, nreq, github_webhook_secret>>

\* process_pull_request always posts; process_manual_review if post_comment
PostsComment(task) == task.kind = "process_pull_request" \/ task.post_comment

\* review_pull_request returned `result`: the task awaits post_pr_comment,
\* or goes on to the update
ReviewReturns(task, result) ==
    /\ task.pc = "review_pull_request"
    /\ IF PostsComment(task)
       THEN /\ tasks' = Replace(task, [task EXCEPT !.pc = "post_pr_comment",
                                                   !.result = result])
            /\ UNCHANGED <<review_status, handled, nreq,
                           github_webhook_secret>>
       ELSE TaskCompletes(task, result)

PostCommentReturns(task) ==
    /\ task.pc = "post_pr_comment"
    /\ TaskCompletes(task, task.result)

\* post_pr_comment raised (github_handler.py:107-112 re-raise)
PostCommentRaises(task) ==
    /\ task.pc = "post_pr_comment"
    /\ TaskFails(task)

JobsNext ==
    \/ /\ \E req \in ReviewRequests : manual_review(req)
       /\ UNCHANGED <<resultVars, dispatchVars, filterVars, prVars, postVars, callVars>>
    \/ /\ \E req \in WebhookRequests : github_webhook(req)
       /\ UNCHANGED <<resultVars, dispatchVars, filterVars, prVars, postVars, callVars>>
    \/ /\ \E task \in Unfinished : TaskStart(task)
       /\ UNCHANGED <<resultVars, dispatchVars, filterVars, prVars, postVars, callVars>>
    \/ /\ \E task \in Unfinished : GetPrFilesReturns(task)
       /\ UNCHANGED <<resultVars, dispatchVars, filterVars, prVars, postVars, callVars>>
    \/ /\ \E task \in Unfinished : GetPrFilesRaises(task)
       /\ UNCHANGED <<resultVars, dispatchVars, filterVars, prVars, postVars, callVars>>
    \/ /\ \E task \in Unfinished, result \in ReviewOutcomes :
             ReviewReturns(task, result)
       /\ UNCHANGED <<resultVars, dispatchVars, filterVars, prVars, postVars, callVars>>
    \/ /\ \E task \in Unfinished : PostCommentReturns(task)
       /\ UNCHANGED <<resultVars, dispatchVars, filterVars, prVars, postVars, callVars>>
    \/ /\ \E task \in Unfinished : PostCommentRaises(task)
       /\ UNCHANGED <<resultVars, dispatchVars, filterVars, prVars, postVars, callVars>>

InitJobs == JobsInit /\ ResultInit /\ DispatchIdle /\ FilterIdle /\ PrIdle
            /\ PostIdle /\ CallsIdle

SpecJobs == InitJobs /\ [][JobsNext]_vars

(***************************************************************************)
(* Properties of the job table.                                            *)
(***************************************************************************)
\* a step that handled an HTTP request, and one taken by a background task
RequestStep == nreq' = nreq + 1
TaskStep == nreq' = nreq /\ tasks' # tasks

ForwardMoves ==
    {<<"absent", "pending">>, <<"pending", "in_progress">>,
     <<"in_progress", "completed">>, <<"in_progress", "failed">>,
     <<"completed", "pending">>, <<"failed", "pending">>}

\* C1 (as claimed): for every job id the stored status only moves forward,
\* pending -> in_progress -> completed|failed; a terminal record is left only
\* by its replacement with a fresh pending record on a re-submission, and no
\* background task writes onto a completed or failed record.
C1_StatusOnlyMovesForward ==
    [][\A id \in ReviewIds :
         LET old == StatusOf(review_status, id)
             new == StatusOf(review_status', id)
         IN /\ old # new => <<old, new>> \in ForwardMoves
            /\ (TaskStep /\ old \in Terminal) =>
                   review_status'[id] = review_status[id]]_vars

\* C2: a manual submission for an id whose record is in_progress is answered
\* 409 and leaves the job table and the set of background tasks unchanged.
C2_ManualConflictWhileInProgress ==
    [][\A id \in ReviewIds :
         (/\ RequestStep
          /\ handled'.op = "manual_review"
          /\ handled'.review_id = id
          /\ StatusOf(review_status, id) = "in_progress")
         => /\ handled'.status_code = 409
            /\ review_status' = review_status
            /\ tasks' = tasks]_vars

\* C2 witness: a manual submission has just been refused with 409 for an id
\* whose record is in_progress, with its task still running.
C2_Witness ==
    /\ handled.op = "manual_review"
    /\ handled.status_code = 409
    /\ handled.found = "in_progress"
    /\ StatusOf(review_status, handled.review_id) = "in_progress"
    /\ \E task \in Unfinished : task.review_id = handled.review_id

FreshKeys == {"status", "started_at", "pr_number", "repo"}

\* C3: a manual submission for an id whose record is completed or failed is
\* accepted and replaces the record by one holding exactly status=pending,
\* started_at, pr_number and repo; nothing of the previous job survives.
C3_ResubmissionReplacesRecord ==
    [][\A id \in ReviewIds :
         (/\ RequestStep
          /\ handled'.op = "manual_review"
          /\ handled'.review_id = id
          /\ StatusOf(review_status, id) \in Terminal)
         => /\ handled'.status_code = 200
            /\ DOMAIN review_status'[id] = FreshKeys
            /\ review_status'[id]["status"] = "pending"
            /\ review_status'[id]["started_at"] = Now'
            /\ ReviewId(review_status'[id]["repo"],
                        review_status'[id]["pr_number"]) = id
            /\ \E task \in BagToSet(tasks') :
                  task.review_id = id /\ task.pc = "scheduled"]_vars

\* C3 witness: a manual submission was accepted on a terminal record, and the
\* table now holds the fresh pending record.
C3_Witness ==
    /\ handled.op = "manual_review"
    /\ handled.status_code = 200
    /\ handled.found \in Terminal
    /\ DOMAIN review_status[handled.review_id] = FreshKeys
    /\ review_status[handled.review_id]["status"] = "pending"

\* C4 (as claimed): a webhook that triggers a review has, on the same prior
\* job table, the outcome of the manual surface: refused exactly when the
\* manual submission is refused, and the same resulting table.
C4_WebhookEquivalentToManual ==
    [][\A id \in ReviewIds :
         (/\ RequestStep
          /\ handled'.op = "github_webhook"
          /\ handled'.review_id = id)
         => IF ManualConflict(review_status, id)
            THEN handled'.status_code = 409 /\ review_status' = review_status
            ELSE /\ handled'.status_code = 200
                 /\ \E r \in Repos, n \in PrNumbers :
                       /\ ReviewId(r, n) = id
                       /\ review_status' =
                            CreateJob(review_status, id, NewJobRecord(r, n, Now'))
        ]_vars

\* C5 (as claimed): with a webhook secret configured, a request whose
\* signature is absent or does not verify is answered 401 and creates no job
\* record and schedules no task.
C5_UnverifiedWebhookRejected ==
    [][\A req \in WebhookRequests :
         (/\ github_webhook(req)
          /\ github_webhook_secret # NoSecret
          /\ req.signature # ExpectedSignature(github_webhook_secret, req.body))
         => /\ handled'.status_code = 401
            /\ review_status' = review_status
            /\ tasks' = tasks]_vars

ReportKeys == {"summary", "total_issues", "critical_issues", "report"}

\* C8 (as claimed): when the fetch of the change-set's files fails, the
\* record ends failed with the error captured and carries no summary,
\* total_issues, critical_issues or report.
C8_FetchFailureLeavesNoReport ==
    [][\A task \in Unfinished :
         (/\ task.pc = "get_pr_files"
          /\ TaskStep
          /\ tasks' = Finish(task))
         => LET rec == review_status'[task.review_id] IN
            /\ rec["status"] = "failed"
            /\ "error" \in DOMAIN rec
            /\ rec["error"] = ErrorOf("get_pr_files")
            /\ DOMAIN rec \cap ReportKeys = {}]_vars

(***************************************************************************)
(* One ReviewResult under any sequence of calls of its methods.            *)
(***************************************************************************)
InitResult ==
    /\ JobsInit /\ github_webhook_secret = NoSecret
    /\ ResultInit /\ DispatchIdle /\ FilterIdle /\ PrIdle
    /\ PostIdle /\ CallsIdle

ResultNext ==
    \/ /\ \E f \in Files, a \in ResultAgents :
            \E issues \in IssueLists(f) : add_file_result(f, a, issues)
       /\ UNCHANGED <<jobVars, dispatchVars, filterVars, prVars, postVars, callVars>>
    \/ finalize /\ UNCHANGED <<jobVars, dispatchVars, filterVars, prVars, postVars, callVars>>
    \/ to_dict /\ UNCHANGED <<jobVars, dispatchVars, filterVars, prVars, postVars, callVars>>
    \/ to_markdown /\ UNCHANGED <<jobVars, dispatchVars, filterVars, prVars, postVars, callVars>>

SpecResult == InitResult /\ [][ResultNext]_vars

\* the finding lists passed to add_file_result so far
PassedLists == [i \in DOMAIN passed |-> passed[i][3]]

\* the counters recomputed from the log of calls
PassedTotal == SumOf([i \in DOMAIN passed |-> Len(passed[i][3])])
PassedCritical ==
    Len(SelectSeq(Flatten(PassedLists), LAMBDA x : x.severity = "CRITICAL"))

\* C9: after any sequence of add_file_result calls, interleaved with any
\* finalize, to_dict and to_markdown calls, total_issues is the sum of the
\* lengths of the finding lists passed and critical_issues the number of passed
\* findings whose severity is CRITICAL; only add_file_result changes a counter
\* and no step makes a counter smaller.
C9_CountersMatchPassedFindings ==
    /\ [](total_issues = PassedTotal /\ critical_issues = PassedCritical)
    /\ [][/\ total_issues' >= total_issues
          /\ critical_issues' >= critical_issues
          /\ (total_issues' # total_issues \/ critical_issues' # critical_issues)
                => (last_call' = "add_file_result"
                    /\ Len(passed') = Len(passed) + 1)]_vars

\* C9 witness: three calls passed CRITICAL and other findings, finalize and
\* to_dict ran in between, and to_markdown ran last.
C9_Witness ==
    /\ Len(passed) = 3
    /\ total_issues = 5
    /\ critical_issues = 2
    /\ end_time # NoTime
    /\ summary.total_issues < total_issues
    /\ last_call = "to_markdown"

\* the counts of summary.severity_breakdown, in its order
BreakdownCounts(s) ==
    [i \in DOMAIN s.severity_breakdown |-> s.severity_breakdown[i][2]]

BreakdownMatchesCounters ==
    /\ SumOf(BreakdownCounts(summary)) = total_issues
    /\ Get(summary.severity_breakdown, "CRITICAL") = critical_issues

\* no (file_path, agent_name) pair was passed to add_file_result twice
DistinctPairs ==
    \A i, j \in DOMAIN passed :
        (passed[i][1] = passed[j][1] /\ passed[i][2] = passed[j][2]) => i = j

\* C10 (as claimed): right after finalize(), following any sequence of
\* add_file_result calls, the counts of summary.severity_breakdown sum to
\* total_issues and its CRITICAL count is critical_issues.
C10_BreakdownMatchesCounters_AnySequence ==
    last_call = "finalize" => BreakdownMatchesCounters

\* C10 (amended): the same, for sequences of add_file_result calls in which
\* no (file_path, agent_name) pair is passed twice.
C10_BreakdownMatchesCounters ==
    (last_call = "finalize" /\ DistinctPairs) => BreakdownMatchesCounters

\* C10 witness: finalize ran after three calls for distinct pairs that
\* passed CRITICAL findings and a finding of a severity outside the enum.
C10_Witness ==
    /\ last_call = "finalize"
    /\ DistinctPairs
    /\ Len(passed) = 3
    /\ critical_issues >= 1
    /\ "BLOCKER" \in Keys(summary.severity_breakdown)
    /\ total_issues = 4

(***************************************************************************)
(* review_file called for one file after the other.                        *)
(***************************************************************************)
InitDispatch ==
    /\ JobsInit /\ github_webhook_secret = NoSecret
    /\ ResultInit /\ DispatchInit /\ FilterIdle /\ PrIdle
    /\ PostIdle /\ CallsIdle

DispatchNext ==
    \/ /\ \E f \in Files : review_file(f)
       /\ UNCHANGED <<jobVars, resultVars, filterVars, prVars, postVars, callVars>>
    \/ /\ at = "acompletion"
       /\ \E found \in FoundBy(agents[idx], reviewing) : EngineReturns(found)
       /\ UNCHANGED <<jobVars, resultVars, filterVars, prVars, postVars, callVars>>
    \/ EngineFails /\ UNCHANGED <<jobVars, resultVars, filterVars, prVars, postVars, callVars>>
    \/ ReviewCodeCrashes /\ UNCHANGED <<jobVars, resultVars, filterVars, prVars, postVars, callVars>>

SpecDispatch == InitDispatch /\ [][DispatchNext]_vars

\* the findings the agent's review produced for review_file: those of the
\* engine's response, none when the review failed
FindingsOf(entry) ==
    IF entry.outcome.kind = "response" THEN entry.outcome.found ELSE <<>>

\* C6: whatever subset of the configured analyzers fails, the mapping
\* review_file returns has one entry per configured analyzer, in their
\* insertion order; a failing analyzer maps to the empty sequence and every
\* other analyzer to exactly the findings it produced.
C6_DispatcherIsolation ==
    at = "returned" =>
        /\ Len(results) = Len(agents)
        /\ Len(produced) = Len(agents)
        /\ \A i \in DOMAIN agents :
              /\ results[i][1] = agents[i]
              /\ produced[i].agent = agents[i]
              /\ results[i][2] = FindingsOf(produced[i])

\* C6 witness: four analyzers configured, exactly one raised, the other
\* three returned findings, and review_file has returned.
C6_Witness ==
    /\ at = "returned"
    /\ Len(agents) = 4
    /\ Cardinality({i \in DOMAIN produced : produced[i].outcome.kind = "crash"}) = 1
    /\ \A i \in DOMAIN produced :
          produced[i].outcome.kind # "crash" =>
              (produced[i].outcome.kind = "response" /\ results[i][2] # <<>>)

\* C7: when the engine call fails (the fallback included), review_code does
\* not raise and returns the empty sequence for that file, never the
\* findings of a previous file.
C7_EngineFailureGivesEmpty ==
    \A i \in DOMAIN produced :
        produced[i].outcome.kind = "engine_error" =>
            /\ ~produced[i].propagated
            /\ results[i] = <<produced[i].agent, <<>>>>
            /\ (i = Len(produced) => agent_issues[produced[i].agent] = <<>>)

\* C7 witness: an agent that returned findings for the previous file had
\* its engine call fail for this file, and its slot is empty.
C7_Witness ==
    /\ nfiles = 2
    /\ \E i \in DOMAIN produced :
          /\ produced[i].outcome.kind = "engine_error"
          /\ GetOr(previous, produced[i].agent, <<>>) # <<>>
          /\ results[i][2] = <<>>

(***************************************************************************)
(* One engine response parsed and filtered by one agent.                   *)
(***************************************************************************)
InitFilter ==
    /\ JobsInit /\ github_webhook_secret = NoSecret
    /\ ResultInit /\ DispatchIdle /\ FilterInit /\ PrIdle
    /\ PostIdle /\ CallsIdle

FilterNext ==
    \/ /\ parse_response
       /\ UNCHANGED <<jobVars, resultVars, dispatchVars, prVars, postVars, callVars>>
    \/ /\ \E i \in DOMAIN Agents : filter_issues(Agents[i])
       /\ UNCHANGED <<jobVars, resultVars, dispatchVars, prVars, postVars, callVars>>

SpecFilter == InitFilter /\ [][FilterNext]_vars

SeverityEnum == {Severities[i] : i \in DOMAIN Severities}

\* C11: every finding built from the engine's response has a severity of
\* the enum (a severity outside it is coerced to MEDIUM), so every finding
\* that reaches a filter has one.
C11_SeverityCoerced ==
    stage = "parsed" =>
        \A i \in DOMAIN parsed :
            /\ parsed[i].severity \in SeverityEnum
            /\ ("severity" \in DOMAIN raw[i] /\ raw[i].severity \notin SeverityEnum
                    => parsed[i].severity = "MEDIUM")

\* the single order of the severities: CRITICAL first, unrecognized last
UrgencyRank(severity) ==
    CASE severity = "CRITICAL" -> 0
      [] severity = "HIGH" -> 1
      [] severity = "MEDIUM" -> 2
      [] severity = "LOW" -> 3
      [] severity = "INFO" -> 4
      [] OTHER -> 5

InUrgencyOrder(issues) ==
    \A i, j \in DOMAIN issues :
        i < j => UrgencyRank(issues[i].severity) <= UrgencyRank(issues[j].severity)

\* C12: in the output of each of the four filters no finding of a less
\* urgent severity precedes a finding of a more urgent one, under the order
\* CRITICAL, HIGH, MEDIUM, LOW, INFO, unrecognized last.
C12_FilterOutputInUrgencyOrder ==
    stage = "filtered" => InUrgencyOrder(filtered)

\* the same for the three filters that rank with severity_priority
C12_ExceptStyle ==
    (stage = "filtered" /\ filter_agent # "Style") => InUrgencyOrder(filtered)

\* the elements of s whose key no earlier element has, in the order of s;
\* `keys` holds the key of each element
FirstOccurrences(s, keys) ==
    LET keep == {i \in DOMAIN s : \A j \in 1..(i - 1) : keys[j] # keys[i]}
        nth(n) == CHOOSE i \in keep : Cardinality({j \in keep : j <= i}) = n
    IN  [n \in 1..Cardinality(keep) |-> s[nth(n)]]

\* the stable sort by severity rank: rank by rank, each in the order of s
StableRankSort(s) ==
    Flatten([r \in 1..6 |-> SelectSeq(s, LAMBDA x : UrgencyRank(x.severity) = r - 1)])

SecurityKey(x) == <<x.line_number, x.message>>
PerformanceKey(x) ==
    <<x.line_number, x.category,
      [i \in {k \in DOMAIN x.message : k <= 30} |-> x.message[i]]>>

\* C13: the Security filter (key (line, message), cap 20) and the
\* Performance filter (key (line, category, first 30 characters of the
\* message), cap 15) return exactly the first cap elements of the stable
\* severity-rank sort of the input with later duplicates of a key removed.
C13_DedupeSortCapExact ==
    stage = "filtered" =>
        /\ filter_agent = "Security" =>
              filtered = Take(StableRankSort(FirstOccurrences(parsed,
                            [i \in DOMAIN parsed |-> SecurityKey(parsed[i])])), 20)
        /\ filter_agent = "Performance" =>
              filtered = Take(StableRankSort(FirstOccurrences(parsed,
                            [i \in DOMAIN parsed |-> PerformanceKey(parsed[i])])), 15)

\* C13 witness: 30 security findings with pairwise distinct keys, the first
\* of them LOW, were cut to the 20 of lowest rank.
C13_Witness ==
    /\ stage = "filtered"
    /\ filter_agent = "Security"
    /\ Len(parsed) = 30
    /\ \A i, j \in DOMAIN parsed : SecurityKey(parsed[i]) = SecurityKey(parsed[j]) => i = j
    /\ parsed[1].severity = "LOW"
    /\ Len(filtered) = 20
    /\ filtered[1].severity = "CRITICAL"

\* C14: when the diff of the file holds an f-string SQL query and a
\* hardcoded password, the Security analyzer's result after its filter
\* holds a CRITICAL finding for each, whatever the engine returned.
C14_PatternFindingsSurvive ==
    (/\ stage = "filtered"
     /\ filter_agent = "Security"
     /\ {"sql_injection", "secrets"} \subseteq DiffMatches("a.py"))
    => \A c \in {"sql_injection", "secrets"} :
          \E i \in DOMAIN filtered :
              filtered[i].severity = "CRITICAL" /\ filtered[i].category = c

\* the findings of the tree to_dict returned, file by file, analyzer by
\* analyzer
TreeFindings(tree) ==
    Flatten([i \in DOMAIN tree |->
               Flatten([j \in DOMAIN tree[i][2] |-> tree[i][2][j][2]])])

\* the number of findings of the tree whose `field` is `value`
CountIn(tree, field, value) ==
    Cardinality({k \in DOMAIN TreeFindings(tree) : TreeFindings(tree)[k][field] = value})

\* a breakdown holds exactly the counts of the tree: every value that
\* occurs is a key with its count, and every other key counts 0
Reproduces(tree, field, breakdown) ==
    /\ \A k \in DOMAIN TreeFindings(tree) :
          TreeFindings(tree)[k][field] \in Keys(breakdown)
    /\ \A key \in Keys(breakdown) :
          Get(breakdown, key) = CountIn(tree, field, key)

FinalizedAfterLastAdd == end_time # NoTime /\ adds_at_finalize = Len(passed)

BreakdownsRoundTrip ==
    /\ Reproduces(returned.file_results, "severity",
                  returned.summary.severity_breakdown)
    /\ Reproduces(returned.file_results, "category",
                  returned.summary.category_breakdown)

TotalRoundTrip ==
    Len(TreeFindings(returned.file_results)) = returned.summary.total_issues

\* C15 (as claimed): for a ReviewResult finalized after its last
\* add_file_result, the counts of severities and categories over the tree
\* to_dict returns reproduce the breakdowns of summary, and the number of
\* findings of the tree is summary.total_issues.
C15_ToDictRoundTrip_AnySequence ==
    (last_call = "to_dict" /\ FinalizedAfterLastAdd) =>
        (BreakdownsRoundTrip /\ TotalRoundTrip)

\* C15 (amended): the breakdowns are reproduced for every sequence of
\* calls; the number of findings of the tree is summary.total_issues when
\* no (file_path, agent_name) pair was passed to add_file_result twice.
C15_ToDictRoundTrip ==
    (last_call = "to_dict" /\ FinalizedAfterLastAdd) =>
        (BreakdownsRoundTrip /\ (DistinctPairs => TotalRoundTrip))

\* C15 witness: to_dict of a result finalized after three calls for distinct
\* pairs, holding a finding of a severity outside the enum.
C15_Witness ==
    /\ last_call = "to_dict"
    /\ FinalizedAfterLastAdd
    /\ DistinctPairs
    /\ Len(passed) = 3
    /\ Len(TreeFindings(returned.file_results)) = 4
    /\ \E k \in DOMAIN TreeFindings(returned.file_results) :
          TreeFindings(returned.file_results)[k].severity = "BLOCKER"

\* the number of unfinished background tasks of the job `id`
UnfinishedFor(id) ==
    BagCardinality([t \in {u \in BagToSet(tasks) : u.review_id = id} |->
                        CopiesIn(t, tasks)])

\* C17: at any time there is at most one unfinished background review task
\* for a job id, whatever manual and webhook submissions were made.
C17_OneTaskPerJob ==
    \A id \in ReviewIds : UnfinishedFor(id) <= 1

\* the positions in `tasks` of the coroutines that have begun to run: a
\* coroutine object runs no code until it is awaited, and review_file
\* awaits them one after the other
StartedPositions == IF at = "acompletion" THEN 1..idx ELSE {}

\* the positions of the coroutines suspended in their engine call
InFlight == IF at = "acompletion" THEN {idx} ELSE {}

\* C18: review_file launches all enabled analyzers concurrently: while an
\* analyzer's engine call for the file is in flight, every other enabled
\* analyzer has been started too (analyzer k+1 before analyzer k completes).
C18_AnalyzersLaunchedTogether ==
    at = "acompletion" => StartedPositions = DOMAIN agents

\* what holds instead: never are two engine calls of one review_file in
\* flight, and analyzer k+1 starts only when analyzer k has completed
C18_OneEngineCallAtATime ==
    /\ Cardinality(InFlight) <= 1
    /\ \A k \in StartedPositions : k < idx => k \in DOMAIN produced

(***************************************************************************)
(* One call of review_pull_request.                                        *)
(***************************************************************************)
InitReview ==
    /\ JobsInit /\ github_webhook_secret = NoSecret
    /\ ResultInit /\ DispatchInit /\ FilterIdle /\ PrInit
    /\ PostIdle /\ CallsIdle

ReviewNext ==
    \/ /\ review_pull_request
       /\ UNCHANGED <<jobVars, filterVars, postVars, callVars>>
    \/ /\ at = "acompletion"
       /\ \E found \in FoundBy(agents[idx], reviewing) :
             AgentDoneInPr([kind |-> "response", found |-> found])
       /\ UNCHANGED <<jobVars, filterVars, postVars, callVars>>
    \/ /\ AgentDoneInPr([kind |-> "engine_error", found |-> <<>>])
       /\ UNCHANGED <<jobVars, filterVars, postVars, callVars>>
    \/ /\ AgentDoneInPr([kind |-> "crash", found |-> <<>>])
       /\ UNCHANGED <<jobVars, filterVars, postVars, callVars>>
    \/ /\ SleepReturns
       /\ UNCHANGED <<jobVars, filterVars, postVars, callVars>>

SpecReview == InitReview /\ [][ReviewNext]_vars

\* the extension of the path is outside the allow-list
OutsideAllowList(file_path) == Lower(Suffix(file_path)) \notin supported_extensions

\* C16: a file whose extension is outside the allow-list is skipped without
\* invoking any analyzer: review_file is never called for it, the
\* ReviewResult gets no entry for it, and the counters hold only the
\* findings added for other files.
C16_SkippedFileUntouched ==
    /\ \A i \in DOMAIN files_data :
          OutsideAllowList(files_data[i]) =>
              /\ \A k \in DOMAIN reviewed : reviewed[k] # files_data[i]
              /\ reviewing # files_data[i]
              /\ files_data[i] \notin Keys(file_results)
              /\ \A k \in DOMAIN passed : passed[k][1] # files_data[i]
    /\ total_issues = PassedTotal
    /\ critical_issues = PassedCritical

\* C16 witness: README.md stood between two reviewed files that both got
\* findings, and the review has returned.
C16_Witness ==
    /\ step = "returned"
    /\ files_data = <<"a.py", "README.md", "b.PY">>
    /\ Keys(file_results) = {"a.py", "b.PY"}
    /\ total_issues >= 2

\* C19: review_file returns only after every configured analyzer's task for
\* the file has finished; while one is still running, no result of the file
\* is in the ReviewResult, and a file whose results are there had every
\* analyzer finished.
C19_FanInJoin ==
    /\ at = "acompletion" =>
          /\ reviewing \notin Keys(file_results)
          /\ \A k \in DOMAIN passed : passed[k][1] # reviewing
    /\ (reviewed # <<>> /\ reviewing \in Keys(file_results)) =>
          /\ at = "returned"
          /\ Len(produced) = Len(agents)
          /\ \A i \in DOMAIN agents :
                results[i][2] # <<>> =>
                    Get(Get(file_results, reviewing), agents[i]) = results[i][2]

\* C19 witness: the first analyzer finished with findings, a later one is
\* still in its engine call, and the file has no entry yet.
C19_Witness ==
    /\ step = "review_file"
    /\ at = "acompletion"
    /\ idx >= 2
    /\ results[1][2] # <<>>
    /\ reviewing \notin Keys(file_results)

\* the reviewable entries of files_data, in list order
Reviewable == SelectSeq(files_data, LAMBDA f : ~OutsideAllowList(f))

\* C20: files are processed strictly sequentially in list order: when an
\* analyzer runs for a file, every analyzer of the file reviewed before has
\* finished, its results are in the ReviewResult, and the pause after it
\* has completed.
C20_FilesSequential ==
    /\ Len(reviewed) <= Len(Reviewable)
    /\ reviewed = SubSeq(Reviewable, 1, Len(reviewed))
    /\ at = "acompletion" =>
          /\ sleeps = Len(reviewed) - 1
          /\ Len(reviewed) >= 2 =>
                /\ Len(previous) = Len(agents)
                /\ \A i \in DOMAIN previous :
                      previous[i][2] # <<>> =>
                          Get(Get(file_results, reviewed[Len(reviewed) - 1]),
                              previous[i][1]) = previous[i][2]

\* C20 witness: an analyzer runs for the second reviewed file of three
\* entries, after the first file's findings were added and one pause.
C20_Witness ==
    /\ Len(files_data) = 3
    /\ at = "acompletion"
    /\ Len(reviewed) = 2
    /\ sleeps = 1
    /\ \E i \in DOMAIN previous : previous[i][2] # <<>>
    /\ reviewed[1] \in Keys(file_results)

(***************************************************************************)
(* One background task driving one review: review_pull_request followed by *)
(* the task's use of the returned ReviewResult.                            *)
(***************************************************************************)
TaskReviewNext ==
    \/ ReviewNext
    \/ TaskRendersComment
          /\ UNCHANGED <<jobVars, dispatchVars, filterVars, postVars, callVars>>
    \/ /\ \E include_details \in BOOLEAN : TaskUpdatesStatus(include_details)
       /\ UNCHANGED <<jobVars, dispatchVars, filterVars, postVars, callVars>>
    \/ TaskPostRaises
          /\ UNCHANGED <<jobVars, dispatchVars, filterVars, postVars, callVars>>

SpecTaskReview == InitReview /\ [][TaskReviewNext]_vars

\* finalize has run once, after every add_file_result made so far
FinalizedOnce ==
    /\ finalize_calls = 1
    /\ end_time # NoTime
    /\ adds_at_finalize = Len(passed)
    /\ summary = Summarize(file_results, total_issues, critical_issues)

\* a step in which the task reads summary or calls to_markdown or to_dict
ReadsResult ==
    \/ step' # step /\ step' \in {"post_pr_comment", "completed"}
    \/ last_call' # last_call
          /\ last_call' \in {"to_markdown", "to_markdown: AttributeError",
                             "to_dict"}

\* C21: for the ReviewResult of a review_pull_request call driven by a
\* background task, finalize runs exactly once, after the last
\* add_file_result, and every read of summary and every call of to_markdown
\* or to_dict is made after that finalize.
C21_FinalizeOnceBeforeReads ==
    /\ [](finalize_calls <= 1)
    /\ [](step \in {"returned", "post_pr_comment", "completed", "failed"}
            => FinalizedOnce)
    /\ [][finalize_calls' # finalize_calls =>
              /\ step' = "returned"
              /\ adds_at_finalize' = Len(passed)]_vars
    /\ [][finalize_calls >= 1 => passed' = passed]_vars
    /\ [][ReadsResult => FinalizedOnce /\ UNCHANGED summary]_vars

\* the task has taken the report of a review that added findings for two
\* files
C21_Witness ==
    /\ step = "completed"
    /\ last_call = "to_dict"
    /\ Len(passed) >= 2
    /\ Cardinality(Keys(file_results)) = 2
    /\ finalize_calls = 1

(***************************************************************************)
(* The job table with its scheduling: the event loop resumes every task    *)
(* that is ready (a scheduled task is started, an await whose collaborator *)
(* has returned or raised is resumed), and every external call returns or  *)
(* raises.  Requests arrive or not: no fairness is assumed for them.       *)
(***************************************************************************)
\* a step of some background task
TaskRuns ==
    /\ \E task \in Unfinished :
          \/ TaskStart(task)
          \/ GetPrFilesReturns(task)
          \/ GetPrFilesRaises(task)
          \/ \E result \in ReviewOutcomes : ReviewReturns(task, result)
          \/ PostCommentReturns(task)
          \/ PostCommentRaises(task)
    /\ UNCHANGED <<resultVars, dispatchVars, filterVars, prVars, postVars,
                   callVars>>

SpecJobsFair == InitJobs /\ [][JobsNext]_vars /\ WF_vars(TaskRuns)

\* C22: every job whose background task is run eventually reaches completed
\* or failed, provided every external call returns or raises, also when
\* another submission for the same id is interleaved with the task.
C22_JobEventuallyTerminal ==
    \A id \in ReviewIds :
        (StatusOf(review_status, id) = "in_progress")
            ~> (StatusOf(review_status, id) \in Terminal)

\* a job whose record was written again by a later submission has reached a
\* final status with no task left
C22_Witness ==
    /\ nreq >= 2
    /\ tasks = EmptyBag
    /\ \E id \in ReviewIds :
          /\ StatusOf(review_status, id) \in Terminal
          /\ review_status[id]["started_at"] >= 2
          /\ review_status[id]["completed_at"] >= 2

(***************************************************************************)
(* Concurrent reviews on the shared agents.                                *)
(***************************************************************************)
InitCalls ==
    /\ JobsInit /\ github_webhook_secret = NoSecret
    /\ ResultInit /\ CallsInit /\ FilterIdle /\ PrIdle /\ PostIdle

CallsNext ==
    \/ /\ \E c \in Callers :
             \E f \in CallerFiles(c) : ConcurrentReviewFile(c, f)
       /\ UNCHANGED <<jobVars, resultVars, filterVars, prVars, postVars>>
    \/ /\ \E c \in Callers :
             /\ calls[c].at = "acompletion"
             /\ \E found \in FoundIn(agents[calls[c].idx], c,
                                       calls[c].file_path) :
                   ConcurrentAgentDone(c, [kind |-> "response",
                                           found |-> found])
       /\ UNCHANGED <<jobVars, resultVars, filterVars, prVars, postVars>>
    \/ /\ \E c \in Callers :
             ConcurrentAgentDone(c, [kind |-> "engine_error", found |-> <<>>])
       /\ UNCHANGED <<jobVars, resultVars, filterVars, prVars, postVars>>
    \/ /\ \E c \in Callers :
             ConcurrentAgentDone(c, [kind |-> "crash", found |-> <<>>])
       /\ UNCHANGED <<jobVars, resultVars, filterVars, prVars, postVars>>

SpecCalls == InitCalls /\ [][CallsNext]_vars

\* C23: with the agent instances shared by all reviews and a call
\* suspended only in its engine call, the findings a review_code call
\* returns are exactly those parsed and filtered from that call's own engine
\* response (none when the call failed); under no interleaving does a
\* caller's results dict hold a finding of another file or change-set.
C23_OwnFindingsOnly ==
    \A c \in DOMAIN calls :
        /\ Len(calls[c].results) = Len(calls[c].produced)
        /\ \A k \in DOMAIN calls[c].results :
              /\ calls[c].results[k][1] = calls[c].produced[k].agent
              /\ calls[c].results[k][2] = FindingsOf(calls[c].produced[k])
              /\ \A j \in DOMAIN calls[c].results[k][2] :
                    /\ calls[c].results[k][2][j].file_path = calls[c].file_path
                    /\ calls[c].results[k][2][j].message = <<"change-set", c>>

\* a caller holds its own findings of an agent whose self.issues has since
\* been overwritten with the findings of the other caller
C23_Witness ==
    \E c \in DOMAIN calls : \E k \in DOMAIN calls[c].results :
        /\ calls[c].results[k][2] # <<>>
        /\ agent_issues[calls[c].results[k][1]] # <<>>
        /\ agent_issues[calls[c].results[k][1]] # calls[c].results[k][2]
        /\ \E d \in DOMAIN calls : d # c /\ calls[d].at = "acompletion"

(***************************************************************************)
(* Report posts for one pull request.                                      *)
(***************************************************************************)
InitPosts ==
    /\ JobsInit /\ github_webhook_secret = NoSecret
    /\ ResultInit /\ DispatchIdle /\ FilterIdle /\ PrIdle /\ PostInit
    /\ CallsIdle

PostsNext ==
    \/ /\ \E p \in DOMAIN posts : post_pr_comment(p)
       /\ UNCHANGED <<jobVars, resultVars, dispatchVars, filterVars, prVars,
                      callVars>>
    \/ /\ \E p \in DOMAIN posts : WorkerListsComments(p)
       /\ UNCHANGED <<jobVars, resultVars, dispatchVars, filterVars, prVars,
                      callVars>>
    \/ /\ \E p \in DOMAIN posts : WorkerEdits(p)
       /\ UNCHANGED <<jobVars, resultVars, dispatchVars, filterVars, prVars,
                      callVars>>
    \/ /\ \E p \in DOMAIN posts : WorkerCreates(p)
       /\ UNCHANGED <<jobVars, resultVars, dispatchVars, filterVars, prVars,
                      callVars>>

SpecPosts == InitPosts /\ [][PostsNext]_vars

\* C24 (as claimed): after any sequence of possibly concurrent report posts
\* for one pull request, the pull request holds at most one report comment
\* of the bot carrying the marker: a post edits the marked comment when one
\* exists and creates one only when none exists.
C24_AtMostOneReportComment ==
    Cardinality(ReportComments(comments)) <= 1

\* what does hold: the posts never remove a comment, never touch a comment
\* of another user, and leave at most one report comment per post that
\* found none
C24_OneReportPerRacingPost ==
    Cardinality(ReportComments(comments)) <=
        1 + Cardinality({p \in DOMAIN posts : posts[p].pc = "done"})

(***************************************************************************)
(* One engine text on its way through _parse_response and a filter.        *)
(***************************************************************************)
InitParse ==
    /\ JobsInit /\ github_webhook_secret = NoSecret
    /\ ResultInit /\ DispatchIdle /\ ParseInit /\ PrIdle /\ PostIdle
    /\ CallsIdle

ParseNext ==
    \/ /\ parse_any_response
       /\ UNCHANGED <<jobVars, resultVars, dispatchVars, prVars, postVars,
                      callVars>>
    \/ /\ \E i \in DOMAIN Agents : filter_issues(Agents[i])
       /\ UNCHANGED <<jobVars, resultVars, dispatchVars, prVars, postVars,
                      callVars>>

SpecParse == InitParse /\ [][ParseNext]_vars

\* the text holds no brace pair, or what is between the braces is not JSON
Unparseable(resp) ==
    \/ ~(resp.json_start >= 0 /\ resp.json_end > resp.json_start)
    \/ resp.loads.error

\* the JSON object has an "issues" value that is no list of objects
MalformedIssues(resp) ==
    /\ ~Unparseable(resp)
    /\ resp.loads.has_issues
    /\ \/ ~resp.loads.issues.iterable
       \/ \E k \in DOMAIN resp.loads.issues.items :
             ~resp.loads.issues.items[k].is_dict

\* C25 (as claimed): whenever the engine's text does not yield a JSON object
\* of the expected shape (no braces, invalid JSON between the first "{" and
\* the last "}", or a malformed issues list), _parse_response does not raise
\* and returns what the line-heuristic text extraction returns.
C25_FallsBackToTextExtraction ==
    (stage = "parsed" /\ (Unparseable(response) \/ MalformedIssues(response)))
        => parsed = ParseTextResponse(response.lines, "a.py")

\* what does hold: text with a brace pair around invalid JSON is given to
\* the text extraction
C25_InvalidJsonFallsBack ==
    (stage = "parsed" /\ response.json_start >= 0
        /\ response.json_end > response.json_start /\ response.loads.error)
        => parsed = ParseTextResponse(response.lines, "a.py")

(***************************************************************************)
(* The Style and Documentation filters against their policies.             *)
(***************************************************************************)
\* the rank of a severity under an order of severities: its place in the
\* order, and the length of the order for a severity that is not in it
RankIn(order, severity) ==
    IF \E i \in DOMAIN order : order[i] = severity
    THEN (CHOOSE i \in DOMAIN order : order[i] = severity) - 1
    ELSE Len(order)

\* the order the Style filter ranks by (CRITICAL is not in it) and the one
\* the Documentation filter ranks by
StyleOrder == <<"HIGH", "MEDIUM", "LOW", "INFO">>
DocumentationOrder == <<"CRITICAL", "HIGH", "MEDIUM", "LOW", "INFO">>

\* the sort key (severity rank, line number)
RankLineKey(x, order) == <<RankIn(order, x.severity), x.line_number>>

\* the elements of s at the positions `keep`, in the order of s
AtPositions(s, keep) ==
    LET nth(n) == CHOOSE i \in keep : Cardinality({j \in keep : j <= i}) = n
    IN  [n \in 1..Cardinality(keep) |-> s[nth(n)]]

\* how often x occurs in s
CountOf(s, x) == Cardinality({i \in DOMAIN s : s[i] = x})

\* `out` is the first `cap` of the findings `pool` sorted by (rank, line):
\* it is in key order, has min(cap, Len(pool)) entries, holds no finding
\* more often than the pool, and no finding left out has a smaller key than
\* one that is in
FirstSorted(out, pool, order, cap) ==
    /\ Len(out) = IF Len(pool) < cap THEN Len(pool) ELSE cap
    /\ \A i, j \in DOMAIN out :
          i < j => ~KeyLess(RankLineKey(out[j], order),
                            RankLineKey(out[i], order))
    /\ \A i \in DOMAIN out : CountOf(out, out[i]) <= CountOf(pool, out[i])
    /\ \A k \in DOMAIN pool :
          CountOf(out, pool[k]) < CountOf(pool, pool[k]) =>
              \A i \in DOMAIN out :
                  ~KeyLess(RankLineKey(pool[k], order),
                           RankLineKey(out[i], order))

\* the positions of s the Style policy retains: scanning in order, a LOW
\* finding is dropped once more than 10 are retained, otherwise a finding
\* is retained iff no earlier retained one has its (line, category)
StyleKept(s) ==
    LET kept[n \in 0..Len(s)] ==
            IF n = 0 THEN {}
            ELSE LET before == kept[n - 1]
                 IN IF Cardinality(before) > 10 /\ s[n].severity = "LOW"
                    THEN before
                    ELSE IF \E j \in before :
                               /\ s[j].line_number = s[n].line_number
                               /\ s[j].category = s[n].category
                         THEN before
                         ELSE before \cup {n}
    IN kept[Len(s)]

DocKept(s) ==
    {n \in DOMAIN s :
        Cardinality({j \in 1..(n - 1) : s[j].category = s[n].category}) < 3}

\* C27: for every input the Documentation filter's output holds at most 3
\* findings of any one category, taken from the first 3 of that category in
\* input order, is sorted by (severity rank, line number), has at most 15
\* entries, and every output finding is an element of the input.
C27_DocumentationPolicy ==
    (stage = "filtered" /\ filter_agent = "Documentation") =>
        /\ FirstSorted(filtered, AtPositions(parsed, DocKept(parsed)),
                       DocumentationOrder, 15)
        /\ \A i \in DOMAIN filtered :
              Cardinality({j \in DOMAIN filtered :
                              filtered[j].category = filtered[i].category}) <= 3
        /\ Len(filtered) <= 15
        /\ \A i \in DOMAIN filtered :
              \E n \in DOMAIN parsed : parsed[n] = filtered[i]

\* the Documentation filter turned away a fourth finding of a category and
\* cut the accepted findings, more than 15, to 15
C27_Witness ==
    /\ stage = "filtered"
    /\ filter_agent = "Documentation"
    /\ DocKept(parsed) # DOMAIN parsed
    /\ Cardinality(DocKept(parsed)) > 15
    /\ Len(filtered) = 15

(***************************************************************************)
(* summary.agents_used.                                                    *)
(***************************************************************************)
\* the analyzers with a non-empty finding list recorded for some file
ProducedFindings(fr) ==
    {a \in UNION {Keys(fr[i][2]) : i \in DOMAIN fr} :
        \E i \in DOMAIN fr : GetOr(fr[i][2], a, <<>>) # <<>>}

\* C28 (as claimed): after finalize(), summary.agents_used is exactly the
\* set of the analyzer names that have at least one non-empty finding list
\* recorded for some file; an analyzer recorded only with empty lists is not
\* in it.
C28_AgentsUsedProducedFindings ==
    (last_call = "finalize" /\ FinalizedAfterLastAdd) =>
        summary.agents_used = ProducedFindings(file_results)

\* what does hold: agents_used is the set of the analyzer names recorded
\* for some file, whatever the lists recorded
C28_AgentsUsedAreRecorded ==
    (last_call = "finalize" /\ FinalizedAfterLastAdd) =>
        summary.agents_used = {passed[k][2] : k \in DOMAIN passed}

\* and in a review: review_pull_request records non-empty lists only
\* (orchestrator.py:266-268), so the result it returns has the analyzers
\* that produced findings
C28_InReview ==
    step = "returned" => summary.agents_used = ProducedFindings(file_results)

(***************************************************************************)
(* The report of a ReviewResult holding findings of every severity, with   *)
(* and without suggestions, few and many per file.                         *)
(***************************************************************************)
\* the finding lists an analyzer may hand over for a file: none; five
\* findings, three of them neither CRITICAL nor HIGH; six, four of them
\* neither; eleven findings of the lesser severities
ReportLists(file) ==
    { <<>>,
      << CodeReviewIssue(9, "LOW", "naming", "m4", NoSuggestion, file),
         CodeReviewIssue(3, "CRITICAL", "sql_injection", "m1", "s1", file),
         CodeReviewIssue(5, "MEDIUM", "naming", "m3", "s3", file),
         CodeReviewIssue(7, "HIGH", "xss", "m2", NoSuggestion, file),
         CodeReviewIssue(8, "BLOCKER", "naming", "m5", NoSuggestion, file) >>,
      << CodeReviewIssue(1, "INFO", "docs", "m6", "s6", file),
         CodeReviewIssue(2, "HIGH", "xss", "m7", "s7", file),
         CodeReviewIssue(4, "LOW", "naming", "m8", NoSuggestion, file),
         CodeReviewIssue(6, "MEDIUM", "naming", "m9", NoSuggestion, file),
         CodeReviewIssue(2, "CRITICAL", "secrets", "m10", NoSuggestion, file),
         CodeReviewIssue(11, "LOW", "naming", "m11", "s11", file) >>,
      [k \in 1..11 |->
          CodeReviewIssue(20 + k, Cycle(<<"MEDIUM", "LOW", "INFO">>, k),
                          "naming", "m12",
                          IF k % 2 = 0 THEN "s12" ELSE NoSuggestion, file)] }

ReportNext ==
    \/ /\ \E f \in Files, a \in ResultAgents :
            \E issues \in ReportLists(f) : add_file_result(f, a, issues)
       /\ UNCHANGED <<jobVars, dispatchVars, filterVars, prVars, postVars,
                      callVars>>
    \/ finalize
          /\ UNCHANGED <<jobVars, dispatchVars, filterVars, prVars, postVars,
                         callVars>>
    \/ to_markdown
          /\ UNCHANGED <<jobVars, dispatchVars, filterVars, prVars, postVars,
                         callVars>>

SpecReport == InitResult /\ [][ReportNext]_vars

\* the findings recorded for a file, analyzer by analyzer
FileFindings(file_path) ==
    LET d == Get(file_results, file_path)
    IN Flatten([k \in DOMAIN d |-> d[k][2]])

\* the findings recorded for a file together with their analyzers
FileFindingsByAgent(file_path) ==
    LET d == Get(file_results, file_path)
    IN Flatten([k \in DOMAIN d |->
                  [j \in DOMAIN d[k][2] |->
                      [agent |-> d[k][1], issue |-> d[k][2][j]]]])

\* the line at position i of the report shows the finding x of analyzer a
Shows(lines, i, a, x) ==
    /\ lines[i].kind = "finding"
    /\ lines[i].n = x.line_number
    /\ lines[i].severity = x.severity
    /\ lines[i].names = {a}
    /\ lines[i].text = x.message

\* the positions of the section that starts with the file line at h: up to
\* the next file line or the footer
Section(lines, h) ==
    {i \in DOMAIN lines :
        /\ h < i
        /\ \A k \in (h + 1)..i : lines[k].kind \notin {"file", "footer"}}

\* C29 (as claimed): in the report, every finding that is rendered and has
\* a suggestion has its suggestion on the line directly below its own line,
\* whatever its severity.
C29_SuggestionBelowEveryFinding ==
    last_call = "to_markdown" =>
        \A h \in DOMAIN returned.markdown :
            returned.markdown[h].kind = "file" =>
                \A i \in Section(returned.markdown, h) :
                    \A k \in DOMAIN FileFindingsByAgent(returned.markdown[h].text) :
                        LET f == FileFindingsByAgent(returned.markdown[h].text)[k]
                        IN (/\ Shows(returned.markdown, i, f.agent, f.issue)
                            /\ f.issue.suggestion # NoSuggestion)
                           => /\ i + 1 \in DOMAIN returned.markdown
                              /\ returned.markdown[i + 1].kind = "suggestion"
                              /\ returned.markdown[i + 1].text = f.issue.suggestion

\* what does hold: the same for the CRITICAL and the HIGH findings
C29_SuggestionBelowCriticalAndHigh ==
    last_call = "to_markdown" =>
        \A h \in DOMAIN returned.markdown :
            returned.markdown[h].kind = "file" =>
                \A i \in Section(returned.markdown, h) :
                    \A k \in DOMAIN FileFindingsByAgent(returned.markdown[h].text) :
                        LET f == FileFindingsByAgent(returned.markdown[h].text)[k]
                        IN (/\ Shows(returned.markdown, i, f.agent, f.issue)
                            /\ f.issue.severity \in {"CRITICAL", "HIGH"}
                            /\ f.issue.suggestion # NoSuggestion)
                           => /\ i + 1 \in DOMAIN returned.markdown
                              /\ returned.markdown[i + 1].kind = "suggestion"
                              /\ returned.markdown[i + 1].text = f.issue.suggestion

(***************************************************************************)
(* C30: the order and the truncation of the report's file sections.        *)
(***************************************************************************)
\* 0 for CRITICAL, 1 for HIGH, 2 for every other severity
SeverityGroup(severity) ==
    IF severity = "CRITICAL" THEN 0 ELSE IF severity = "HIGH" THEN 1 ELSE 2

\* how many of the findings recorded for a file are of the group g
RecordedInGroup(file_path, g) ==
    Cardinality({k \in DOMAIN FileFindings(file_path) :
                    SeverityGroup(FileFindings(file_path)[k].severity) = g})

\* how many finding lines of the section at h are of the group g
RenderedInGroup(lines, h, g) ==
    Cardinality({i \in Section(lines, h) :
                    /\ lines[i].kind = "finding"
                    /\ SeverityGroup(lines[i].severity) = g})

\* the section at h keeps the order CRITICAL, HIGH, others; renders every
\* CRITICAL and HIGH finding of its file and at most 10 of the others; and
\* wraps the others in the disclosure block exactly when the file has more
\* than 3 of them
SectionInOrder(lines, h) ==
    LET sec == Section(lines, h)
        file_path == lines[h].text
        others == RecordedInGroup(file_path, 2)
        opens == {i \in sec : lines[i].kind = "details"}
        closes == {i \in sec : lines[i].kind = "end details"}
    IN /\ \A i, j \in sec :
            (/\ lines[i].kind = "finding"
             /\ lines[j].kind = "finding"
             /\ SeverityGroup(lines[i].severity) < SeverityGroup(lines[j].severity))
            => i < j
       /\ RenderedInGroup(lines, h, 0) = RecordedInGroup(file_path, 0)
       /\ RenderedInGroup(lines, h, 1) = RecordedInGroup(file_path, 1)
       /\ RenderedInGroup(lines, h, 2) = (IF others < 10 THEN others ELSE 10)
       /\ (opens # {}) <=> (others > 3)
       /\ Cardinality(opens) = Cardinality(closes)
       /\ Cardinality(opens) <= 1
       /\ \A o \in opens, c \in closes, i \in sec :
            lines[i].kind = "finding" =>
                IF SeverityGroup(lines[i].severity) = 2
                THEN o < i /\ i < c
                ELSE i < o

\* C30: in the report, the file sections are those of the files with
\* findings, in lexicographic order of path; inside each section every
\* CRITICAL finding comes before every HIGH one and every HIGH one before
\* any other; every CRITICAL and HIGH finding is rendered, at most 10 of the
\* others are, and the others are wrapped in the disclosure block exactly
\* when there are more than 3 of them.
C30_SectionsSortedGroupedAndTruncated ==
    last_call = "to_markdown" =>
        LET lines == returned.markdown
            heads == {h \in DOMAIN lines : lines[h].kind = "file"}
        IN /\ \A h1, h2 \in heads :
                h1 < h2 => PathRank(lines[h1].text) < PathRank(lines[h2].text)
           /\ {lines[h].text : h \in heads}
                = {f \in Keys(file_results) : FileFindings(f) # <<>>}
           /\ \A h \in heads : SectionInOrder(lines, h)

\* a report of two files recorded as b.py and then a.py, one of them with
\* more than 10 findings of the lesser severities, the other with at most 3
\* of them next to a CRITICAL and a HIGH finding
C30_Witness ==
    /\ last_call = "to_markdown"
    /\ Len(file_results) = 2
    /\ file_results[1][1] = "b.py"
    /\ file_results[2][1] = "a.py"
    /\ \E f, g \in Keys(file_results) :
          /\ RecordedInGroup(f, 2) > 10
          /\ RecordedInGroup(g, 2) \in 1..3
          /\ RecordedInGroup(g, 0) > 0
          /\ RecordedInGroup(g, 1) > 0
    /\ Cardinality({h \in DOMAIN returned.markdown :
                       returned.markdown[h].kind = "file"}) = 2

====
